---- MODULE Spec2Model ----
(***************************************************************************)
(* A model of the market-screening scripts of THREELabs Stock Research     *)
(* Tools: the weekly fluctuation scan and its report, the buy/sell price   *)
(* recommendation, the Coinbase candle download, and the RSI / moving      *)
(* average rules.                                                          *)
(*                                                                         *)
(* Arithmetic.  The scripts compute in IEEE double precision through       *)
(* pandas/numpy.  The model keeps the special values of that arithmetic    *)
(* (NaN, +inf, -inf, division by zero, comparisons with NaN being false)   *)
(* and computes the finite values exactly, as irreducible fractions; the   *)
(* rounding of the last bit is outside the model.                          *)
(***************************************************************************)
EXTENDS Integers, Sequences, FiniteSets, TLC

VARIABLES
    \* ---- weekly fluctuation scan (default-drop-checker*.py) ----
    params,          \* MIN_FLUCTUATION, MAX_FLUCTUATION, CONSECUTIVE_WEEKS
    fluctuations,    \* the weekly fluctuation series handed to the scan
    scan_result,     \* <<>>, then <<what check_consecutive_fluctuations returned>>
    \* ---- the report of default-drop-checker.py / -GUI.py ----
    variant,         \* "cli" (main) or "gui" (AnalysisThread + display_results)
    todo,            \* instruments still to analyze
    all_results,     \* results collected so far
    top,             \* the printed "Top opportunities" list
    pc,              \* position of the run
    \* ---- get_recommendations (StockRadar.py, innout-stocks.py, testing-with-crypto.py) ----
    rec_script,      \* which script's get_recommendations is called
    weekly,          \* history['Close'].resample('W').last(): the weekly closes
    avg_weekly_change, \* the avg_weekly_change argument of a direct call
    rec,             \* <<>>, then <<the (buy_price, sell_price) returned>>
    opp,             \* <<>>, then <<the opportunity analyze_stock built>>
    \* ---- the Coinbase candle download (CryptoSqueeze, VolatilityRadar, cb-volatility-list, scrap) ----
    cb_script,       \* the script that runs
    candles,         \* the rows it holds, in the order it holds them
    cb_pc,           \* "start", "fetched", "computed" or "skipped"
    computed_on,     \* the rows, in order, the indicators were computed on
    price_read,      \* <<>>, then <<the close read as the current price>>
    \* ---- indicators and rules (StockRadar, buy-low-sell-high-GUI-stage, CryptoSqueeze, VolatilityRadar) ----
    ind_script,      \* the script that analyzes the instrument
    history,         \* the closes of the fetched history, oldest first
    volume,          \* the volumes of the fetched candles (CryptoSqueeze)
    ind_pc,          \* "start" or "done"
    skipped,         \* the instrument was dropped before any indicator was computed
    ind,             \* the indicators computed: whole columns (a direct call) or the latest row (a script)
    result,          \* <<>>: no opportunity / no row; else <<the record produced>>
    \* ---- CryptoVolatilityTracker (VolatilityHunter.py) ----
    vh_data,         \* self.data: one entry per symbol, in insertion order
    vh_pc,           \* the next call of run: "fetch", "calculate", "identify", "report"
    vh_poll,         \* the number of the poll iteration
    vh_active,       \* the active symbols of the market list of this poll
    vh_requested,    \* the symbols fetch_ohlcv was called for in this poll
    vh_failed,       \* the symbols whose fetch_ohlcv raised in this poll
    vh_stored,       \* the symbols whose bars were stored in this poll
    vh_evaluated,    \* the symbols identify_opportunities evaluated in this poll
    vh_opportunities, \* what identify_opportunities returned in this poll
    \* ---- find_promising_stocks and its caller (StockRadar.py) ----
    fi_answers,      \* what yfinance answers for each ticker
    fi_task,         \* per ticker: "submitted", "finished" (the future is done) or "consumed"
    fi_result,       \* per ticker, once finished: whether the task raised, and its value (<<>> for None)
    promising_stocks, \* the list the as_completed loop appends to
    fi_pc,           \* "start", "collecting", "returned", "shown" or "aborted"
    fi_returned,     \* the list find_promising_stocks returned
    top_n,           \* the number of stocks the user asks to display
    fi_shown,        \* the entries main prints
    \* ---- get_coinbase_cryptos (FluctuationScout.py) ----
    gc_pc,           \* "running", "returned" or "raised"
    attempt,         \* the loop variable of range(max_retries)
    gc_requests,     \* requests.get calls made
    gc_slept,        \* the delays slept, in order
    gc_log,          \* how each attempt ended: "ok", "request_error" or "other_error"
    gc_result,       \* <<>>, then <<the list returned>>
    \* ---- volatility and Sharpe ratio (VolatilityRadar.py, scrap.py) ----
    sh_script,       \* the script whose calculate_metrics runs
    sh_closes,       \* the closes of the frame, oldest first
    sh_pc,           \* "start" or "done"
    sh_metrics,      \* the volatility and the Sharpe ratio returned
    \* ---- the Tk GUI (default-crypto-drop-checker.py) ----
    tk_config,       \* the module-level configuration, one value per global
    tk_button,       \* the state of the Run Analysis button
    tk_thread,       \* the analysis threads started so far: position and the configuration each read
    tk_queue,        \* self.queue
    \* ---- score_currency of select_investment_options (scrap.py) ----
    currency_data,   \* the fields of a result row the score reads
    sc_score,        \* <<>>, then <<the sub-scores and the total score>>
    \* ---- check_fluctuation (default-crypto-drop-checker.py) ----
    cf_prices,       \* what get_crypto_data answers: "raises", or the daily closes with their weeks
    cf_result,       \* <<>>, then <<what check_fluctuation returned>>
    \* ---- simulate_trading_strategy (VolatilityRadar.py) ----
    tr_closes,       \* df['close'], in the order of the frame
    tr_trades,       \* <<>>, then <<the trade list returned>>
    tr_pairs,        \* <<>>, then <<the (buy, sell) positions calculate_strategy_performance multiplied>>
    \* ---- find_repetitive_dips (testing-with-crypto.py) ----
    dip_closes,      \* history['Close']
    dip_threshold,   \* the threshold argument
    repetitive_dips, \* <<>>, then <<the list returned>>
    \* ---- the sliding-window test of analyze_instruments (default-crypto-drop-checker.py) ----
    meets_criteria,  \* <<>>, then <<meets_criteria after the window loop>>
    \* ---- the PyQt6 tool (buy-low-sell-high-GUI-stage.py) ----
    qt_app,          \* "running" or "aborted"
    qt_clicks,       \* clicks on Analyze handled so far
    qt_worker,       \* the StockAnalysisWorker threads started, in order
    qt_events,       \* the signals queued for the GUI thread
    progress_bar,    \* the value of the progress bar
    results_table,   \* the rows of the results table
    \* ---- CryptoInvestmentScanner (CryptoWatchDog.py) ----
    cw_pc,           \* "polling", or "raised" once a call has raised
    cw_poll,         \* completed calls of update_promising_currencies
    cw_stats,        \* the stats the API answered in the last call, per product
    currencies       \* self.currencies: (id, stats) in insertion order

scanVars == <<params, fluctuations, scan_result>>

mainVars == <<variant, todo, all_results, top, pc>>

recVars == <<rec_script, weekly, avg_weekly_change, rec, opp>>

cbVars == <<cb_script, candles, cb_pc, computed_on, price_read>>

indVars == <<ind_script, history, volume, ind_pc, skipped, ind, result>>

hunterVars == <<vh_data, vh_pc, vh_poll, vh_active, vh_requested, vh_failed,
                vh_stored, vh_evaluated, vh_opportunities>>

coreVars == <<scanVars, mainVars, recVars, cbVars, indVars>>

fanVars == <<fi_answers, fi_task, fi_result, promising_stocks, fi_pc, fi_returned,
             top_n, fi_shown>>

retryVars == <<gc_pc, attempt, gc_requests, gc_slept, gc_log, gc_result>>

sharpeVars == <<sh_script, sh_closes, sh_pc, sh_metrics>>

tkVars == <<tk_config, tk_button, tk_thread, tk_queue>>

scoreVars == <<currency_data, sc_score>>

extVars == <<hunterVars, fanVars, retryVars, sharpeVars, tkVars, scoreVars>>

cfVars == <<cf_prices, cf_result>>

trVars == <<tr_closes, tr_trades, tr_pairs>>

dipVars == <<dip_closes, dip_threshold, repetitive_dips>>

winVars == <<meets_criteria>>

qtVars == <<qt_app, qt_clicks, qt_worker, qt_events, progress_bar, results_table>>

cwVars == <<cw_pc, cw_poll, cw_stats, currencies>>

lateVars == <<cfVars, trVars, dipVars, winVars, qtVars, cwVars>>

vars == <<coreVars, extVars, lateVars>>

(***************************************************************************)
(* Floating point values: a finite fraction n/d (d > 0, irreducible), an   *)
(* infinity with its sign in n, or NaN.                                    *)
(***************************************************************************)
Abs(x) == IF x < 0 THEN -x ELSE x

Sign(x) == IF x < 0 THEN -1 ELSE IF x > 0 THEN 1 ELSE 0

RECURSIVE GCD(_, _)
GCD(a, b) == IF b = 0 THEN a ELSE GCD(b, a % b)

NaN == [k |-> "nan", n |-> 0, d |-> 1]

Inf(s) == [k |-> "inf", n |-> s, d |-> 1]

Frac(n, d) ==
    LET g == GCD(Abs(n), d)
    IN  [k |-> "num", n |-> Sign(n) * (Abs(n) \div g), d |-> d \div g]

F(i) == Frac(i, 1)

IsNaN(a) == a.k = "nan"

IsNum(a) == a.k = "num"

FNeg(a) == IF IsNaN(a) THEN NaN ELSE [a EXCEPT !.n = -a.n]

FAdd(a, b) ==
    IF IsNaN(a) \/ IsNaN(b) THEN NaN
    ELSE IF IsNum(a) /\ IsNum(b) THEN Frac(a.n * b.d + b.n * a.d, a.d * b.d)
    ELSE IF IsNum(a) THEN b
    ELSE IF IsNum(b) THEN a
    ELSE IF a.n = b.n THEN a ELSE NaN

FSub(a, b) == FAdd(a, FNeg(b))

FMul(a, b) ==
    IF IsNaN(a) \/ IsNaN(b) THEN NaN
    ELSE IF IsNum(a) /\ IsNum(b) THEN Frac(a.n * b.n, a.d * b.d)
    ELSE IF Sign(a.n) * Sign(b.n) = 0 THEN NaN
    ELSE Inf(Sign(a.n) * Sign(b.n))

\* numpy float division: x/0 is +-inf, 0/0 and inf/inf are NaN, x/inf is 0.
FDiv(a, b) ==
    IF IsNaN(a) \/ IsNaN(b) THEN NaN
    ELSE IF IsNum(a) /\ IsNum(b) THEN
        IF b.n = 0 THEN (IF a.n = 0 THEN NaN ELSE Inf(Sign(a.n)))
        ELSE Frac(Sign(b.n) * a.n * b.d, a.d * Abs(b.n))
    ELSE IF IsNum(a) THEN F(0)
    ELSE IF IsNum(b) THEN Inf(a.n * (IF b.n < 0 THEN -1 ELSE 1))
    ELSE NaN

\* a < b; false as soon as one side is NaN.
FLt(a, b) ==
    IF IsNaN(a) \/ IsNaN(b) THEN FALSE
    ELSE IF IsNum(a) /\ IsNum(b) THEN a.n * b.d < b.n * a.d
    ELSE IF IsNum(a) THEN b.n > 0
    ELSE IF IsNum(b) THEN a.n < 0
    ELSE a.n < b.n

FGt(a, b) == FLt(b, a)

FLe(a, b) == ~IsNaN(a) /\ ~IsNaN(b) /\ ~FLt(b, a)

FGe(a, b) == FLe(b, a)

FAbs(a) == IF IsNaN(a) THEN NaN ELSE [a EXCEPT !.n = Abs(a.n)]

\* Python's max(a, b): b if b > a, otherwise a.
PyMax(a, b) == IF FGt(b, a) THEN b ELSE a

\* Python's min(a, b): b if b < a, otherwise a.
PyMin(a, b) == IF FLt(b, a) THEN b ELSE a

(***************************************************************************)
(* Bounds of the model.                                                    *)
(***************************************************************************)
MaxWeeks == 5          \* longest weekly fluctuation series handed to the scan

MaxConsecutive == 3    \* largest CONSECUTIVE_WEEKS tried

MaxInstruments == 3    \* instruments analyzed in one run of the report

MaxReportWeeks == 3    \* longest weekly series fetched in a run of the report

(***************************************************************************)
(* default-drop-checker.py: the configuration and the scan.                *)
(***************************************************************************)
MIN_FLUCTUATION == 2

MAX_FLUCTUATION == 10

CONSECUTIVE_WEEKS == 3

GUI_MIN_FLUCTUATION == 5

TOP_DISPLAYED == 10

\* The module-level configuration of the command-line script.
CliParams ==
    [MIN_FLUCTUATION |-> F(MIN_FLUCTUATION), MAX_FLUCTUATION |-> F(MAX_FLUCTUATION),
     CONSECUTIVE_WEEKS |-> CONSECUTIVE_WEEKS]

\* The parameters start_analysis reads from the spin boxes (CONSECUTIVE_WEEKS
\* ranges over 1..52 there; the model tries 1..MaxConsecutive).
GuiParams ==
    [MIN_FLUCTUATION : {F(MIN_FLUCTUATION), F(GUI_MIN_FLUCTUATION)},
     MAX_FLUCTUATION : {F(MAX_FLUCTUATION)},
     CONSECUTIVE_WEEKS : 1..MaxConsecutive]

\* Weekly fluctuations: below the band, inside it, above it, and undefined
\* (a week whose Open is missing).
FluctValues == {F(1), F(6), F(11), NaN}

SeqsUpTo(S, n) == UNION {[1..m -> S] : m \in 1..n}

\* MIN_FLUCTUATION <= fluctuation <= MAX_FLUCTUATION
InBand(x, p) == FLe(p.MIN_FLUCTUATION, x) /\ FLe(x, p.MAX_FLUCTUATION)

\* The for loop of check_consecutive_fluctuations from element i on, with the
\* running count.
RECURSIVE ScanFromMut(_, _, _, _)
ScanFromMut(fl, p, i, count) ==
    IF i > Len(fl) THEN FALSE
    ELSE IF InBand(fl[i], p)
         THEN IF count + 1 = p.CONSECUTIVE_WEEKS THEN TRUE
              ELSE ScanFromMut(fl, p, i + 1, count + 1)
         ELSE ScanFromMut(fl, p, i + 1, count)

RECURSIVE ScanFrom(_, _, _, _)
ScanFrom(fl, p, i, count) ==
    IF i > Len(fl) THEN FALSE
    ELSE IF InBand(fl[i], p)
         THEN IF count + 1 = p.CONSECUTIVE_WEEKS THEN TRUE
              ELSE ScanFrom(fl, p, i + 1, count + 1)
         ELSE ScanFrom(fl, p, i + 1, 0)

check_consecutive_fluctuations(fl, p) == ScanFrom(fl, p, 1, 0)

(***************************************************************************)
(* The scan on its own: every series up to MaxWeeks weeks, every           *)
(* configuration.                                                          *)
(***************************************************************************)
\* The parts of the state a specification does not use stay at these values.
MainIdle ==
    /\ variant = "cli"
    /\ todo = 0
    /\ all_results = <<>>
    /\ top = <<>>
    /\ pc = "idle"

ScanIdle ==
    /\ params = CliParams
    /\ fluctuations = <<>>
    /\ scan_result = <<>>

RecIdle ==
    /\ rec_script = "StockRadar"
    /\ weekly = <<>>
    /\ avg_weekly_change = NaN
    /\ rec = <<>>
    /\ opp = <<>>

CbIdle ==
    /\ cb_script = "scrap"
    /\ candles = <<>>
    /\ cb_pc = "idle"
    /\ computed_on = <<>>
    /\ price_read = <<>>

IndIdle ==
    /\ ind_script = "StockRadar"
    /\ history = <<>>
    /\ volume = <<>>
    /\ ind_pc = "idle"
    /\ skipped = FALSE
    /\ ind = <<>>
    /\ result = <<>>

HunterIdle ==
    /\ vh_data = <<>>
    /\ vh_pc = "idle"
    /\ vh_poll = 0
    /\ vh_active = {}
    /\ vh_requested = {}
    /\ vh_failed = {}
    /\ vh_stored = {}
    /\ vh_evaluated = {}
    /\ vh_opportunities = <<>>

CoreIdle == ScanIdle /\ MainIdle /\ RecIdle /\ CbIdle /\ IndIdle

FanIdle ==
    /\ fi_answers = <<>>
    /\ fi_task = <<>>
    /\ fi_result = <<>>
    /\ promising_stocks = <<>>
    /\ fi_pc = "idle"
    /\ fi_returned = <<>>
    /\ top_n = 0
    /\ fi_shown = <<>>

RetryIdle ==
    /\ gc_pc = "idle"
    /\ attempt = 0
    /\ gc_requests = 0
    /\ gc_slept = <<>>
    /\ gc_log = <<>>
    /\ gc_result = <<>>

SharpeIdle ==
    /\ sh_script = "scrap"
    /\ sh_closes = <<>>
    /\ sh_pc = "idle"
    /\ sh_metrics = <<>>

TkIdle ==
    /\ tk_config = <<>>
    /\ tk_button = "idle"
    /\ tk_thread = <<>>
    /\ tk_queue = <<>>

ScoreIdle ==
    /\ currency_data = <<>>
    /\ sc_score = <<>>

ExtIdle == HunterIdle /\ FanIdle /\ RetryIdle /\ SharpeIdle /\ TkIdle /\ ScoreIdle

CfIdle ==
    /\ cf_prices = <<>>
    /\ cf_result = <<>>

TrIdle ==
    /\ tr_closes = <<>>
    /\ tr_trades = <<>>
    /\ tr_pairs = <<>>

DipIdle ==
    /\ dip_closes = <<>>
    /\ dip_threshold = 0
    /\ repetitive_dips = <<>>

WinIdle == meets_criteria = <<>>

QtIdle ==
    /\ qt_app = "idle"
    /\ qt_clicks = 0
    /\ qt_worker = <<>>
    /\ qt_events = <<>>
    /\ progress_bar = 0
    /\ results_table = <<>>

CwIdle ==
    /\ cw_pc = "idle"
    /\ cw_poll = 0
    /\ cw_stats = <<>>
    /\ currencies = <<>>

LateIdle == CfIdle /\ TrIdle /\ DipIdle /\ WinIdle /\ QtIdle /\ CwIdle

notScan == <<mainVars, recVars, cbVars, indVars, extVars, lateVars>>

notMain == <<recVars, cbVars, indVars, extVars, lateVars>>

notRec == <<scanVars, mainVars, cbVars, indVars, extVars, lateVars>>

notCb == <<scanVars, mainVars, recVars, indVars, extVars, lateVars>>

notInd == <<scanVars, mainVars, recVars, cbVars, extVars, lateVars>>

notHunter == <<coreVars, fanVars, retryVars, sharpeVars, tkVars, scoreVars, lateVars>>

notFan == <<coreVars, hunterVars, retryVars, sharpeVars, tkVars, scoreVars, lateVars>>

notRetry == <<coreVars, hunterVars, fanVars, sharpeVars, tkVars, scoreVars, lateVars>>

notSharpe == <<coreVars, hunterVars, fanVars, retryVars, tkVars, scoreVars, lateVars>>

notTk == <<coreVars, hunterVars, fanVars, retryVars, sharpeVars, scoreVars, lateVars>>

notScore == <<coreVars, hunterVars, fanVars, retryVars, sharpeVars, tkVars, lateVars>>

notCf == <<coreVars, extVars, trVars, dipVars, winVars, qtVars, cwVars>>

notTr == <<coreVars, extVars, cfVars, dipVars, winVars, qtVars, cwVars>>

notDip == <<coreVars, extVars, cfVars, trVars, winVars, qtVars, cwVars>>

notWin == <<coreVars, extVars, cfVars, trVars, dipVars, qtVars, cwVars>>

notQt == <<coreVars, extVars, cfVars, trVars, dipVars, winVars, cwVars>>

notCw == <<coreVars, extVars, cfVars, trVars, dipVars, winVars, qtVars>>

ScanInit ==
    /\ params \in GuiParams \cup {CliParams}
    /\ fluctuations \in SeqsUpTo(FluctValues, MaxWeeks)
    /\ scan_result = <<>>
    /\ MainIdle
    /\ RecIdle
    /\ CbIdle
    /\ IndIdle
    /\ ExtIdle
    /\ LateIdle

CheckConsecutive ==
    /\ scan_result = <<>>
    /\ scan_result' = <<check_consecutive_fluctuations(fluctuations, params)>>
    /\ UNCHANGED <<params, fluctuations>>
    /\ UNCHANGED notScan

ScanNext == CheckConsecutive

SpecScan == ScanInit /\ [][ScanNext]_vars

\* Some run of k adjacent weeks, anywhere in the series, lies in the band.
HasRun(fl, p) ==
    \E i \in 1..Len(fl) :
        /\ i + p.CONSECUTIVE_WEEKS - 1 <= Len(fl)
        /\ \A j \in i..(i + p.CONSECUTIVE_WEEKS - 1) : InBand(fl[j], p)

ExampleQualifies == <<F(1), F(6), F(6), F(6), F(1)>>

ExampleFails == <<F(1), F(6), F(1), F(6), F(6)>>

\* C1: check_consecutive_fluctuations returns True exactly when the series
\* holds, anywhere in it, an unbroken run of at least CONSECUTIVE_WEEKS values
\* inside [MIN_FLUCTUATION, MAX_FLUCTUATION]; an out-of-band (or undefined)
\* value resets the run.  [1,6,6,6,1] with band [2,10] and K = 3 qualifies,
\* [1,6,1,6,6] does not.
C1_RunAnywhere ==
    scan_result # <<>> =>
        /\ scan_result[1] = HasRun(fluctuations, params)
        /\ (params = CliParams /\ fluctuations = ExampleQualifies) => scan_result[1] = TRUE
        /\ (params = CliParams /\ fluctuations = ExampleFails) => scan_result[1] = FALSE

\* The qualifying example has been scanned: its run is in the middle of the
\* series, not at its end.
C1_Witness ==
    /\ params = CliParams
    /\ fluctuations = ExampleQualifies
    /\ scan_result = <<TRUE>>

(***************************************************************************)
(* The report: analyze_instruments over the symbol list, then the "Top     *)
(* opportunities" list of main (default-drop-checker.py) or of             *)
(* display_results (default-drop-checker-GUI.py).                          *)
(***************************************************************************)
\* What resampling the downloaded bars can give in the report runs.
ReportFluctValues == {F(1), F(6), NaN}

\* analyze_instrument on downloaded data whose weekly fluctuations are fl.
analyze_instrument(symbol, fl, p) ==
    [symbol |-> symbol,
     last_fluctuation |-> fl[Len(fl)],
     meets_criteria |-> check_consecutive_fluctuations(fl, p)]

\* Where sorted(..., key=last_fluctuation, reverse=True) puts x in an already
\* sorted list: behind every entry that is not smaller (the sort is stable).
RECURSIVE InsertDesc(_, _)
InsertDesc(s, x) ==
    IF s = <<>> THEN <<x>>
    ELSE IF FLt(s[1].last_fluctuation, x.last_fluctuation) THEN <<x>> \o s
    ELSE <<s[1]>> \o InsertDesc(Tail(s), x)

RECURSIVE SortedByLastFluctuation(_)
SortedByLastFluctuation(s) ==
    IF s = <<>> THEN <<>>
    ELSE InsertDesc(SortedByLastFluctuation(SubSeq(s, 1, Len(s) - 1)), s[Len(s)])

\* s[:n]
Take(s, n) == SubSeq(s, 1, IF Len(s) < n THEN Len(s) ELSE n)

\* [r for r in results if r['meets_criteria']]
MeetingCriteria(s) == SelectSeq(s, LAMBDA r : r.meets_criteria)

ReportInit ==
    /\ variant \in {"cli", "gui"}
    /\ params \in (IF variant = "cli" THEN {CliParams} ELSE GuiParams)
    /\ todo \in 0..MaxInstruments
    /\ all_results = <<>>
    /\ top = <<>>
    /\ pc = "analyze"
    /\ fluctuations = <<>>
    /\ scan_result = <<>>
    /\ RecIdle
    /\ CbIdle
    /\ IndIdle
    /\ ExtIdle
    /\ LateIdle

\* One turn of the loop of analyze_instruments: the download fails or is empty
\* (no result), or the instrument's result is appended.
AnalyzeInstrument ==
    /\ pc = "analyze"
    /\ todo > 0
    /\ \/ all_results' = all_results
       \/ \E fl \in SeqsUpTo(ReportFluctValues, MaxReportWeeks) :
            all_results' = Append(all_results, analyze_instrument(todo, fl, params))
    /\ todo' = todo - 1
    /\ UNCHANGED <<variant, top, pc>>
    /\ UNCHANGED <<fluctuations, scan_result, params>>
    /\ UNCHANGED notMain

\* main, lines 209-220: the ten largest last fluctuations of all results.
MainTopOpportunities ==
    /\ pc = "analyze"
    /\ todo = 0
    /\ variant = "cli"
    /\ top' = Take(SortedByLastFluctuation(all_results), TOP_DISPLAYED)
    /\ pc' = "done"
    /\ UNCHANGED <<variant, todo, all_results>>
    /\ UNCHANGED <<fluctuations, scan_result, params>>
    /\ UNCHANGED notMain

\* display_results, lines 261-280: the ten largest among those that meet the
\* criteria.
DisplayResults ==
    /\ pc = "analyze"
    /\ todo = 0
    /\ variant = "gui"
    /\ top' = Take(SortedByLastFluctuation(MeetingCriteria(all_results)), TOP_DISPLAYED)
    /\ pc' = "done"
    /\ UNCHANGED <<variant, todo, all_results>>
    /\ UNCHANGED <<fluctuations, scan_result, params>>
    /\ UNCHANGED notMain

ReportNext == AnalyzeInstrument \/ MainTopOpportunities \/ DisplayResults

SpecReport == ReportInit /\ [][ReportNext]_vars

\* C9: every entry of the "Top opportunities" list, of main and of
\* display_results alike, meets the consecutive-fluctuation criteria.
C9_TopMeetsCriteria ==
    pc = "done" => \A i \in 1..Len(top) : top[i].meets_criteria

(***************************************************************************)
(* The price targets: analyze_weekly_change, get_recommendations and the   *)
(* opportunity analyze_stock builds from them.                             *)
(***************************************************************************)
MaxRecWeeks == 3       \* longest series of weekly closes

FLOOR_PER_MILLE == 20          \* the 0.02 of StockRadar.py and innout-stocks.py

CRYPTO_FLOOR_PER_MILLE == 50   \* the 0.05 of testing-with-crypto.py

PerMille(x) == Frac(x, 1000)

Floor(script) ==
    IF script = "testing-with-crypto" THEN PerMille(CRYPTO_FLOOR_PER_MILLE)
    ELSE PerMille(FLOOR_PER_MILLE)

\* avg_weekly_change arguments of a direct call: below -100%, -100%, between,
\* around both floors, zero, and above +100%.
AwcValues ==
    {PerMille(x) : x \in {-1500, -1000, -300, -50, -30, -20, -10, 0,
                          10, 20, 30, 50, 300, 1500}}

\* Weekly closes (positive prices).
WeeklyCloses == {1, 2, 4}

RECURSIVE FSum(_)
FSum(s) == IF s = <<>> THEN F(0) ELSE FAdd(s[1], FSum(Tail(s)))

\* Series.mean(): the mean of the defined entries, NaN when there is none.
Mean(s) ==
    LET defined == SelectSeq(s, LAMBDA x : ~IsNaN(x))
    IN  FDiv(FSum(defined), F(Len(defined)))

\* Series.pct_change(): NaN first, then s[i] / s[i-1] - 1.
PctChange(s) ==
    [i \in 1..Len(s) |->
        IF i = 1 THEN NaN ELSE FSub(FDiv(F(s[i]), F(s[i - 1])), F(1))]

\* analyze_weekly_change on a history whose weekly closes are w.
analyze_weekly_change(w) == Mean(PctChange(w))

get_recommendations_min(current_price, awc, floor) ==
    LET discount == IF FLt(awc, F(0)) THEN PyMax(floor, FAbs(awc)) ELSE floor
        smaller  == IF FLt(awc, floor) THEN awc ELSE floor
    IN  [buy_price  |-> FMul(current_price, FSub(F(1), discount)),
         sell_price |-> FMul(current_price, FAdd(F(1), smaller))]

get_recommendations_abs(current_price, awc, floor) ==
    LET discount == PyMax(floor, FAbs(awc))
    IN  [buy_price  |-> FMul(current_price, FSub(F(1), discount)),
         sell_price |-> FMul(current_price, FAdd(F(1), PyMax(floor, awc)))]

\* get_recommendations: the larger discount only for a negative weekly change.
get_recommendations(current_price, awc, floor) ==
    LET discount == IF FLt(awc, F(0)) THEN PyMax(floor, FAbs(awc)) ELSE floor
    IN  [buy_price  |-> FMul(current_price, FSub(F(1), discount)),
         sell_price |-> FMul(current_price, FAdd(F(1), PyMax(floor, awc)))]

\* The last close of the history is the close of its last week.
CurrentPrice == F(weekly[Len(weekly)])

RecInit ==
    /\ rec_script \in {"StockRadar", "innout-stocks", "testing-with-crypto"}
    /\ weekly \in UNION {[1..m -> WeeklyCloses] : m \in 2..MaxRecWeeks}
    /\ avg_weekly_change \in AwcValues
    /\ rec = <<>>
    /\ opp = <<>>
    /\ ScanIdle
    /\ MainIdle
    /\ CbIdle
    /\ IndIdle
    /\ ExtIdle
    /\ LateIdle

\* A call get_recommendations(history, avg_weekly_change).
GetRecommendations ==
    /\ rec = <<>>
    /\ rec' = <<get_recommendations(CurrentPrice, avg_weekly_change, Floor(rec_script))>>
    /\ UNCHANGED <<rec_script, weekly, avg_weekly_change, opp>>
    /\ UNCHANGED notRec

\* The body of "if current_rsi < 40 and current_price > sma_50 * 0.95" of
\* analyze_stock (StockRadar.py, innout-stocks.py), for a history that passed
\* the test: the opportunity with its prices and potential gain.
BuildOpportunity ==
    /\ opp = <<>>
    /\ rec_script \in {"StockRadar", "innout-stocks"}
    /\ LET awc == analyze_weekly_change(weekly)
           r   == get_recommendations(CurrentPrice, awc, Floor(rec_script))
       IN  opp' = <<[current_price |-> CurrentPrice,
                     avg_weekly_change |-> awc,
                     buy_price |-> r.buy_price,
                     sell_price |-> r.sell_price,
                     potential_gain_percentage |->
                         FMul(FSub(FDiv(r.sell_price, r.buy_price), F(1)), F(100)),
                     potential_gain_dollars |-> FSub(r.sell_price, r.buy_price)]>>
    /\ UNCHANGED <<rec_script, weekly, avg_weekly_change, rec>>
    /\ UNCHANGED notRec

RecNext == GetRecommendations \/ BuildOpportunity

SpecRecommend == RecInit /\ [][RecNext]_vars

\* C2: for a positive current price and any finite avg_weekly_change (also
\* beyond +-100%) get_recommendations returns buy_price < sell_price, and each
\* opportunity built from it has buy_price < sell_price and a positive
\* potential gain, in percent and in dollars.
C2_BuyBelowSell ==
    /\ rec # <<>> => FLt(rec[1].buy_price, rec[1].sell_price)
    /\ opp # <<>> =>
        /\ FLt(opp[1].buy_price, opp[1].sell_price)
        /\ FGt(opp[1].potential_gain_percentage, F(0))
        /\ FGt(opp[1].potential_gain_dollars, F(0))

\* A call with a weekly change of -150% has returned (the buy price is
\* negative there), and an opportunity with a falling history has been built.
C2_Witness ==
    /\ rec # <<>>
    /\ avg_weekly_change = PerMille(-1500)
    /\ FLt(rec[1].buy_price, F(0))
    /\ opp # <<>>
    /\ FLt(opp[1].avg_weekly_change, F(0))

\* C3 as stated: whatever the sign of avg_weekly_change,
\* buy_price = current_price * (1 - max(floor_discount, |avg_weekly_change|)).
C3_DiscountIsMagnitude ==
    rec # <<>> =>
        rec[1].buy_price =
            FMul(CurrentPrice,
                 FSub(F(1), PyMax(Floor(rec_script), FAbs(avg_weekly_change))))

\* C3 amended: buy_price = current_price * (1 - max(floor_discount,
\* -avg_weekly_change)): the magnitude of the weekly change enlarges the
\* discount only when the change is negative; for a zero or positive change
\* the discount is the floor (0.02, or 0.05 in testing-with-crypto.py).
C3_DiscountOnlyWhenNegative ==
    rec # <<>> =>
        /\ rec[1].buy_price =
              FMul(CurrentPrice,
                   FSub(F(1), PyMax(Floor(rec_script), FNeg(avg_weekly_change))))
        /\ FGe(avg_weekly_change, F(0)) =>
              rec[1].buy_price = FMul(CurrentPrice, FSub(F(1), Floor(rec_script)))

\* A call with a positive weekly change above the floor has returned, with the
\* floor as its discount.
C3_Witness ==
    /\ rec # <<>>
    /\ avg_weekly_change = PerMille(300)
    /\ rec[1].buy_price = FMul(CurrentPrice, FSub(F(1), Floor(rec_script)))

(***************************************************************************)
(* The Coinbase candle download.  The API answers with one row per bar, in *)
(* an order of its choosing (newest first, in practice).                   *)
(***************************************************************************)
MaxCandles == 21       \* most bars in one answer

MIN_CANDLES == 20      \* CryptoSqueeze: fewer rows are "insufficient"

MIN_ROWS_RSI == 14     \* VolatilityRadar, scrap: fewer rows give no metrics

MIN_ROWS_VOLATILITY == 7   \* cb-volatility-list: fewer rows give no volatility

CbScripts == {"CryptoSqueeze", "VolatilityRadar", "cb-volatility-list", "scrap"}

\* The bar of day t; its close tells the days apart.
Bar(t) == [time |-> t, close |-> 100 + t]

OldestFirst(n) == [i \in 1..n |-> Bar(i)]

NewestFirst(n) == [i \in 1..n |-> Bar(n + 1 - i)]

SwapAt(s, i) ==
    [j \in 1..Len(s) |-> IF j = i THEN s[i + 1] ELSE IF j = i + 1 THEN s[i] ELSE s[j]]

RotateBy(s, k) == [j \in 1..Len(s) |-> s[((j + k - 1) % Len(s)) + 1]]

\* The orders an answer of n bars is tried in.
Answers(n) ==
    {OldestFirst(n), NewestFirst(n)}
        \cup {SwapAt(OldestFirst(n), i) : i \in 1..(n - 1)}
        \cup {SwapAt(NewestFirst(n), i) : i \in 1..(n - 1)}
        \cup {RotateBy(OldestFirst(n), k) : k \in 1..(n - 1)}

\* df.sort_values('time') / df.sort_index(): ascending, stable.
RECURSIVE InsertByTime(_, _)
InsertByTime(s, x) ==
    IF s = <<>> THEN <<x>>
    ELSE IF x.time < s[1].time THEN <<x>> \o s
    ELSE <<s[1]>> \o InsertByTime(Tail(s), x)

RECURSIVE SortByTime(_)
SortByTime(s) ==
    IF s = <<>> THEN <<>>
    ELSE InsertByTime(SortByTime(SubSeq(s, 1, Len(s) - 1)), s[Len(s)])

\* The rows get_historical_data returns for an answer, per script.
HistoricalData(script, answer) ==
    IF script = "scrap" THEN SortByTime(answer)     \* df.sort_index(inplace=True)
    ELSE answer                                      \* rows kept as delivered

\* The rows calculate_metrics / calculate_volatility computes on, per script.
MetricsFrame(script, rows) ==
    IF script = "CryptoSqueeze" THEN SortByTime(rows)   \* df.sort_values('time')
    ELSE rows

\* Too few rows for the script to compute anything.
TooFewRows(script, n) ==
    IF script = "CryptoSqueeze" THEN n < MIN_CANDLES
    ELSE IF script = "cb-volatility-list" THEN n < MIN_ROWS_VOLATILITY
    ELSE n < MIN_ROWS_RSI

CbInit ==
    /\ cb_script \in CbScripts
    /\ candles = <<>>
    /\ cb_pc = "start"
    /\ computed_on = <<>>
    /\ price_read = <<>>
    /\ ScanIdle
    /\ MainIdle
    /\ RecIdle
    /\ IndIdle
    /\ ExtIdle
    /\ LateIdle

\* get_historical_data: the request fails, or returns too few candles
\* (CryptoSqueeze), or the rows are kept.
GetHistoricalData ==
    /\ cb_pc = "start"
    /\ \/ /\ cb_pc' = "skipped"
          /\ candles' = <<>>
       \/ \E n \in (MIN_CANDLES - 1)..MaxCandles : \E answer \in Answers(n) :
            IF cb_script = "CryptoSqueeze" /\ TooFewRows(cb_script, n)
            THEN cb_pc' = "skipped" /\ candles' = <<>>
            ELSE cb_pc' = "fetched" /\ candles' = HistoricalData(cb_script, answer)
    /\ UNCHANGED <<cb_script, computed_on, price_read>>
    /\ UNCHANGED notCb

\* calculate_metrics (calculate_volatility in cb-volatility-list) and the
\* reading of the last row as the current state of the market.
CalculateMetrics ==
    /\ cb_pc = "fetched"
    /\ ~TooFewRows(cb_script, Len(candles))
    /\ LET df == MetricsFrame(cb_script, candles)
       IN  /\ computed_on' = df
           /\ price_read' = <<df[Len(df)].close>>
    /\ cb_pc' = "computed"
    /\ UNCHANGED <<cb_script, candles>>
    /\ UNCHANGED notCb

CbNext == GetHistoricalData \/ CalculateMetrics

SpecCandles == CbInit /\ [][CbNext]_vars

IsChronological(s) == \A i \in 1..(Len(s) - 1) : s[i].time < s[i + 1].time

NewestClose(s) ==
    LET t == CHOOSE t \in {s[i].time : i \in 1..Len(s)} :
                 \A i \in 1..Len(s) : s[i].time <= t
    IN  Bar(t).close

\* C4: in every script that downloads Coinbase candles the bars are in
\* strictly ascending time order when the indicators are computed, and the
\* current price is the close of the newest bar, whatever order the API
\* delivered them in.
C4_ChronologicalBeforeIndicators ==
    cb_pc = "computed" =>
        /\ IsChronological(computed_on)
        /\ price_read = <<NewestClose(computed_on)>>

(***************************************************************************)
(* Indicators: calculate_rsi, the rolling means, and the rules that read   *)
(* their latest values.                                                    *)
(***************************************************************************)
MaxBars == 51          \* longest history fetched

MaxTail == 7           \* most bars after the change of direction of a history

MaxStep == 1           \* largest day-over-day move of a history

BasePrice == 100       \* first close of a history

RSI_WINDOW == 14

SMA_50_WINDOW == 50

SMA_20_WINDOW == 20

VOLUME_WINDOW == 20

VOLATILITY_WINDOW == 20

MIN_HISTORY == 14      \* analyze_stock: len(history) < 14 returns None

RSI_BUY_BELOW == 40

SMA_PERCENT == 95      \* current_price > sma_50 * 0.95

RSI_OVERSOLD == 30

VOLUME_TREND_ABOVE == 2

BaseVolume == 10       \* the volume of an ordinary candle

\* A history of n closes: the step is s1 per bar up to the last `tail` bars
\* and s2 per bar over those.
TwoLegs(n, tail, s1, s2) ==
    [i \in 1..n |->
        IF i <= n - tail THEN BasePrice + s1 * (i - 1)
        ELSE BasePrice + s1 * (n - tail - 1) + s2 * (i - (n - tail))]

\* A history of n closes that rises by up and falls by down in turn.
ZigZag(n, up, down) ==
    [i \in 1..n |-> BasePrice + up * (i \div 2) - down * ((i - 1) \div 2)]

Steps == (0 - MaxStep)..MaxStep

Histories ==
    {TwoLegs(n, tail, s1, s2) :
        n \in 1..MaxBars, tail \in 0..MaxTail, s1 \in Steps, s2 \in Steps}
    \cup {ZigZag(n, up, down) : n \in 1..MaxBars, up \in 1..2, down \in 1..2}

\* delta.where(delta > 0, 0): the first delta is NaN, NaN > 0 is false, and
\* the entry becomes 0.
GainColumn(c) ==
    [i \in 1..Len(c) |-> IF i > 1 /\ c[i] - c[i - 1] > 0 THEN c[i] - c[i - 1] ELSE 0]

LossColumnUnflipped(c) ==
    [i \in 1..Len(c) |-> IF i > 1 /\ c[i] - c[i - 1] < 0 THEN c[i] - c[i - 1] ELSE 0]

\* -delta.where(delta < 0, 0)
LossColumn(c) ==
    [i \in 1..Len(c) |-> IF i > 1 /\ c[i] - c[i - 1] < 0 THEN c[i - 1] - c[i] ELSE 0]

RECURSIVE SumRange(_, _, _)
SumRange(col, lo, hi) == IF lo > hi THEN 0 ELSE col[hi] + SumRange(col, lo, hi - 1)

RollingMeanPartial(col, w, i) ==
    IF i < w THEN Frac(SumRange(col, 1, i), i)
    ELSE Frac(SumRange(col, i - w + 1, i), w)

\* col.rolling(window=w).mean() at bar i: NaN until the window holds w
\* observations.
RollingMeanAt(col, w, i) ==
    IF i < w THEN NaN ELSE Frac(SumRange(col, i - w + 1, i), w)

\* rs = gain / loss; 100 - (100 / (1 + rs))
RSIValue(gain, loss) ==
    FSub(F(100), FDiv(F(100), FAdd(F(1), FDiv(gain, loss))))

AvgGainAt(c, i) == RollingMeanAt(GainColumn(c), RSI_WINDOW, i)

AvgLossAt(c, i) == RollingMeanAt(LossColumn(c), RSI_WINDOW, i)

\* calculate_rsi(data, window=14) at bar i.
RSIAt(c, i) == RSIValue(AvgGainAt(c, i), AvgLossAt(c, i))

\* calculate_rsi(data, window=14): the column.
calculate_rsi(c) == [i \in 1..Len(c) |-> RSIAt(c, i)]

\* c.rolling(window=w).mean(): the column.
RollingMean(c, w) == [i \in 1..Len(c) |-> RollingMeanAt(c, w, i)]

\* df['close'].pct_change().rolling(window=20).std() at bar i, up to the
\* square root: NaN until the window holds 20 returns (the first return is
\* NaN, so until bar 21), zero when the 20 returns of the window are all
\* equal (c[j] / c[j-1] = c[k] / c[k-1]), positive otherwise.
RollingVolatilityAt(c, i) ==
    LET window == (i - VOLATILITY_WINDOW + 1)..i
    IN  IF i < VOLATILITY_WINDOW + 1 THEN "nan"
        ELSE IF \A j \in window : c[j] * c[i - 1] = c[i] * c[j - 1] THEN "zero"
        ELSE "positive"

RollingVolatility(c) == [i \in 1..Len(c) |-> RollingVolatilityAt(c, i)]

Last(col) == col[Len(col)]

\* The scripts whose analyze_stock applies the rule below to a history of at
\* least 14 bars.
AnalyzeStockScripts == {"StockRadar", "buy-low-sell-high-GUI-stage"}

IsPromisingRsiOnly(rsi, price, sma_50) == FLt(rsi, F(RSI_BUY_BELOW))

IsPromisingNegated(rsi, price, sma_50) ==
    /\ ~FGe(rsi, F(RSI_BUY_BELOW))
    /\ ~FLe(price, FMul(sma_50, Frac(SMA_PERCENT, 100)))

\* current_rsi < 40 and current_price > sma_50 * 0.95
IsPromising(rsi, price, sma_50) ==
    /\ FLt(rsi, F(RSI_BUY_BELOW))
    /\ FGt(price, FMul(sma_50, Frac(SMA_PERCENT, 100)))

\* The script's own test of the length: len(history) < 14 (analyze_stock),
\* len(df) < 14 (VolatilityRadar), len(data) < 20 (CoinbaseAnalyzer).
TooShort(script, n) ==
    IF script = "CryptoSqueeze" THEN n < MIN_CANDLES ELSE n < MIN_HISTORY

IndInit ==
    /\ ind_script \in {"calculate_rsi", "CryptoSqueeze", "VolatilityRadar"}
                        \cup AnalyzeStockScripts
    /\ history = <<>>
    /\ volume = <<>>
    /\ ind_pc = "start"
    /\ skipped = FALSE
    /\ ind = <<>>
    /\ result = <<>>
    /\ ScanIdle
    /\ MainIdle
    /\ RecIdle
    /\ CbIdle
    /\ ExtIdle
    /\ LateIdle

\* calculate_rsi and the rolling means called on a series of any length.
CalculateIndicators ==
    /\ ind_pc = "start"
    /\ ind_script = "calculate_rsi"
    /\ \E c \in Histories :
        /\ history' = c
        /\ ind' = [RSI |-> calculate_rsi(c),
                   SMA_20 |-> RollingMean(c, SMA_20_WINDOW),
                   SMA_50 |-> RollingMean(c, SMA_50_WINDOW),
                   volatility |-> RollingVolatility(c)]
    /\ ind_pc' = "done"
    /\ UNCHANGED <<ind_script, volume, skipped, result>>
    /\ UNCHANGED notInd

\* analyze_stock (StockRadar.py, buy-low-sell-high-GUI-stage.py): the fetch
\* fails or the history is empty (None), the history is too short (None), or
\* the indicators are computed and the rule decides.  The prices of the
\* opportunity of StockRadar.py are those of BuildOpportunity.
AnalyzeStock ==
    /\ ind_pc = "start"
    /\ ind_script \in AnalyzeStockScripts
    /\ \/ /\ history' = <<>>
          /\ skipped' = TRUE
          /\ ind' = <<>>
          /\ result' = <<>>
       \/ \E c \in Histories :
            /\ history' = c
            /\ IF TooShort(ind_script, Len(c))
               THEN /\ skipped' = TRUE
                    /\ ind' = <<>>
                    /\ result' = <<>>
               ELSE LET rsi == RSIAt(c, Len(c))
                        sma == RollingMeanAt(c, SMA_50_WINDOW, Len(c))
                    IN  /\ skipped' = FALSE
                        /\ ind' = [RSI |-> rsi, SMA_50 |-> sma]
                        /\ result' =
                              IF IsPromising(rsi, F(Last(c)), sma)
                              THEN <<[current_price |-> F(Last(c)), rsi |-> rsi]>>
                              ELSE <<>>
    /\ ind_pc' = "done"
    /\ UNCHANGED <<ind_script, volume>>
    /\ UNCHANGED notInd

\* The volumes of n candles: ordinary ones, ordinary ones with a last candle of
\* three times the volume, or no trade at all.
Volumes(n) ==
    {[i \in 1..n |-> BaseVolume],
     [i \in 1..n |-> IF i = n THEN 3 * BaseVolume ELSE BaseVolume],
     [i \in 1..n |-> 0]}

\* The conditions dict of scan_for_opportunities: a key only for an indicator
\* whose latest value is not null.  increasing is the outcome of
\* latest['volatility'] > df['volatility'].mean().
Conditions(rsi, volume_trend, volatility, increasing) ==
    LET keys == (IF IsNaN(rsi) THEN {} ELSE {"oversold"})
                \cup (IF IsNaN(volume_trend) THEN {} ELSE {"high_volume"})
                \cup (IF volatility = "nan" THEN {} ELSE {"increasing_volatility"})
    IN  [key \in keys |->
            IF key = "oversold" THEN FLt(rsi, F(RSI_OVERSOLD))
            ELSE IF key = "high_volume" THEN FGt(volume_trend, F(VOLUME_TREND_ABOVE))
            ELSE increasing]

\* The outcomes of latest['volatility'] > df['volatility'].mean(): false when
\* the latest volatility is zero or the only one defined, either way otherwise.
IncreasingOutcomes(c) ==
    IF RollingVolatilityAt(c, Len(c)) = "positive" /\ Len(c) > VOLATILITY_WINDOW + 1
    THEN BOOLEAN ELSE {FALSE}

\* One product of scan_for_opportunities (CryptoSqueeze.py): the stats or the
\* candles are missing, the volume is low or the candles are fewer than 20
\* (continue), or the metrics are computed and the conditions decide.
ScanProduct ==
    /\ ind_pc = "start"
    /\ ind_script = "CryptoSqueeze"
    /\ \/ /\ history' = <<>>
          /\ volume' = <<>>
          /\ skipped' = TRUE
          /\ ind' = <<>>
          /\ result' = <<>>
       \/ \E c \in Histories : \E v \in Volumes(Len(c)) :
          \E increasing \in IncreasingOutcomes(c) :
            /\ history' = c
            /\ volume' = v
            /\ IF TooShort(ind_script, Len(c))
               THEN /\ skipped' = TRUE
                    /\ ind' = <<>>
                    /\ result' = <<>>
               ELSE LET n   == Len(c)
                        rsi == RSIAt(c, n)
                        vt  == FDiv(F(v[n]), RollingMeanAt(v, VOLUME_WINDOW, n))
                        vol == RollingVolatilityAt(c, n)
                        conditions == Conditions(rsi, vt, vol, increasing)
                    IN  /\ skipped' = FALSE
                        /\ ind' = [RSI |-> rsi, volume_trend |-> vt, volatility |-> vol]
                        /\ result' =
                              IF \E key \in DOMAIN conditions : conditions[key]
                              THEN <<[price |-> F(Last(c)), indicators |-> conditions]>>
                              ELSE <<>>
    /\ ind_pc' = "done"
    /\ UNCHANGED ind_script
    /\ UNCHANGED notInd

\* One currency of main (VolatilityRadar.py): no data (continue), fewer than
\* 14 rows (calculate_metrics returns NaNs: "Insufficient data"), or the
\* metrics are computed and the row is appended to results.
MetricsRow ==
    /\ ind_pc = "start"
    /\ ind_script = "VolatilityRadar"
    /\ \/ /\ history' = <<>>
          /\ skipped' = TRUE
          /\ ind' = <<>>
          /\ result' = <<>>
       \/ \E c \in Histories :
            /\ history' = c
            /\ IF TooShort(ind_script, Len(c))
               THEN /\ skipped' = TRUE
                    /\ ind' = <<>>
                    /\ result' = <<>>
               ELSE LET rsi == RSIAt(c, Len(c))
                        sma == RollingMeanAt(c, SMA_20_WINDOW, Len(c))
                    IN  /\ skipped' = FALSE
                        /\ ind' = [RSI |-> rsi, SMA_20 |-> sma]
                        /\ result' = <<[current_price |-> F(Last(c)),
                                        sma_20 |-> sma, rsi |-> rsi]>>
    /\ ind_pc' = "done"
    /\ UNCHANGED <<ind_script, volume>>
    /\ UNCHANGED notInd

IndNext == CalculateIndicators \/ AnalyzeStock \/ ScanProduct \/ MetricsRow

SpecIndicators == IndInit /\ [][IndNext]_vars

DirectCallDone == ind_script = "calculate_rsi" /\ ind_pc = "done"

ScriptDone == ind_script # "calculate_rsi" /\ ind_pc = "done" /\ ~skipped

Bars == 1..Len(history)

IsZero(a) == IsNum(a) /\ a.n = 0

\* The 30-bar series of the example: closes rising by one a day from 100.
RisingExample == TwoLegs(30, 0, 1, 1)

\* C5: whenever the rolling average loss over the 14-bar window is zero, the
\* RSI of that bar is exactly 100, never NaN; in particular the last bar of
\* the 30-bar rising series has RSI 100.
C5_ZeroLossGives100 ==
    DirectCallDone =>
        /\ \A i \in Bars : IsZero(AvgLossAt(history, i)) => ind.RSI[i] = F(100)
        /\ history = RisingExample => Last(ind.RSI) = F(100)

\* C6: every RSI value that is defined lies in [0, 100], at every bar of a
\* direct call and in the latest row a script reads.
C6_RSIWithinBounds ==
    /\ DirectCallDone =>
         \A i \in Bars :
            ~IsNaN(ind.RSI[i]) => FLe(F(0), ind.RSI[i]) /\ FLe(ind.RSI[i], F(100))
    /\ ScriptDone =>
         (~IsNaN(ind.RSI) => FLe(F(0), ind.RSI) /\ FLe(ind.RSI, F(100)))

\* A computed RSI column holds a value strictly between 0 and 100.
C6_Witness ==
    /\ DirectCallDone
    /\ \E i \in Bars : FLt(F(0), ind.RSI[i]) /\ FLt(ind.RSI[i], F(100))

\* C7: on a series with fewer bars than an indicator's window (14 for
\* calculate_rsi, 20 for SMA_20 and the rolling volatility, 50 for SMA_50) the
\* indicator is NaN at every bar, never 0.
C7_ShortSeriesUndefined ==
    DirectCallDone =>
        /\ Len(history) < RSI_WINDOW => \A i \in Bars : IsNaN(ind.RSI[i])
        /\ Len(history) < SMA_20_WINDOW =>
              \A i \in Bars : IsNaN(ind.SMA_20[i]) /\ ind.volatility[i] = "nan"
        /\ Len(history) < SMA_50_WINDOW => \A i \in Bars : IsNaN(ind.SMA_50[i])

\* The indicators of a 13-bar series have been computed.
C7_Witness ==
    /\ DirectCallDone
    /\ Len(history) = RSI_WINDOW - 1
    /\ IsNaN(Last(ind.RSI))

\* The latest indicator a key of the conditions dict is computed from.
LatestOf(key) ==
    IF key = "oversold" THEN ~IsNaN(ind.RSI)
    ELSE IF key = "high_volume" THEN ~IsNaN(ind.volume_trend)
    ELSE ind.volatility # "nan"

\* C8: an undefined indicator never counts as a met condition: analyze_stock
\* returns no opportunity when the latest RSI or SMA_50 is NaN, and
\* scan_for_opportunities records an opportunity only if a condition computed
\* from a defined indicator is true.
C8_UndefinedIsNotMet ==
    /\ (ScriptDone /\ ind_script = "StockRadar") =>
          ((IsNaN(ind.RSI) \/ IsNaN(ind.SMA_50)) => result = <<>>)
    /\ (ScriptDone /\ ind_script = "CryptoSqueeze" /\ result # <<>>) =>
          \E key \in DOMAIN result[1].indicators :
              result[1].indicators[key] /\ LatestOf(key)

\* analyze_stock has returned None for a history whose RSI is below 40 and
\* whose SMA_50 is undefined.
C8_Witness ==
    /\ ScriptDone
    /\ ind_script = "StockRadar"
    /\ FLt(ind.RSI, F(RSI_BUY_BELOW))
    /\ IsNaN(ind.SMA_50)
    /\ result = <<>>

\* The longest window among the indicators the script's rule reads.
LongestWindow(script) ==
    IF script \in AnalyzeStockScripts THEN SMA_50_WINDOW ELSE SMA_20_WINDOW

\* C10: an instrument whose history has fewer bars than the window
\* of any indicator of the rule is skipped before the rule is evaluated.
C10_SkippedBelowEveryWindow ==
    (ind_script # "calculate_rsi" /\ ind_pc = "done" /\ history # <<>>) =>
        (Len(history) < LongestWindow(ind_script) => skipped)

(***************************************************************************)
(* CryptoVolatilityTracker (VolatilityHunter.py): run polls for ever;      *)
(* each poll fetches, computes the volatilities, identifies and reports.   *)
(***************************************************************************)
MaxPolls == 2          \* poll iterations followed

THRESHOLD_TENTHS == 15 \* volatility_threshold = 1.5

VOLUME_UNIT == 1000000 \* volume / 1000000

\* The market list of the exchange, in the order load_markets gives it.
Markets == <<"BTC/USD", "ETH/USD">>

\* What the exchange answers for one symbol.  A full answer of `window` bars
\* is kept by what the tracker reads of it: scaled_std is
\* returns.std() * sqrt(window) of its closes, volume the last volume, and
\* first_close, last_close its first and last close.
NoBars(kind) ==
    [kind |-> kind, scaled_std |-> 0, volume |-> 0, first_close |-> 0, last_close |-> 0]

FullAnswers ==
    {[kind |-> "ok", scaled_std |-> v, volume |-> b.volume,
      first_close |-> b.first_close, last_close |-> b.last_close] :
        v \in {0, 5, 6},
        b \in {[volume |-> VOLUME_UNIT, first_close |-> 100, last_close |-> 110],
               [volume |-> 3 * VOLUME_UNIT, first_close |-> 100, last_close |-> 90]}}

SymbolAnswers == {NoBars("inactive"), NoBars("raises"), NoBars("short")} \cup FullAnswers

Index(data, symbol) ==
    IF \E i \in 1..Len(data) : data[i].symbol = symbol
    THEN CHOOSE i \in 1..Len(data) : data[i].symbol = symbol
    ELSE 0

\* self.data[symbol] = df: a new key goes last, a known key keeps its place.
Assign(data, entry) ==
    IF Index(data, entry.symbol) = 0 THEN Append(data, entry)
    ELSE [data EXCEPT ![Index(data, entry.symbol)] = entry]

Keys(data) == {data[i].symbol : i \in 1..Len(data)}

Frame(symbol, answer, poll) ==
    [symbol |-> symbol, fetched_in |-> poll, scaled_std |-> answer.scaled_std,
     volume |-> answer.volume, first_close |-> answer.first_close,
     last_close |-> answer.last_close, volatility |-> <<>>]

\* The for loop of fetch_data from market i on, inside its one try block: an
\* exception of fetch_ohlcv leaves the loop.
RECURSIVE FetchFrom(_, _, _, _)
FetchFrom(acc, answers, i, poll) ==
    IF i > Len(Markets) THEN acc
    ELSE LET symbol == Markets[i]
             answer == answers[i]
         IN  IF answer.kind = "inactive" THEN FetchFrom(acc, answers, i + 1, poll)
             ELSE IF answer.kind = "raises"
             THEN [acc EXCEPT !.requested = @ \cup {symbol}, !.failed = @ \cup {symbol}]
             ELSE IF answer.kind = "short"
             THEN FetchFrom([acc EXCEPT !.requested = @ \cup {symbol}], answers, i + 1, poll)
             ELSE FetchFrom([acc EXCEPT !.requested = @ \cup {symbol},
                                        !.stored = @ \cup {symbol},
                                        !.data = Assign(@, Frame(symbol, answer, poll))],
                            answers, i + 1, poll)

HunterInit ==
    /\ vh_data = <<>>
    /\ vh_pc = "fetch"
    /\ vh_poll = 1
    /\ vh_active = {}
    /\ vh_requested = {}
    /\ vh_failed = {}
    /\ vh_stored = {}
    /\ vh_evaluated = {}
    /\ vh_opportunities = <<>>
    /\ CoreIdle
    /\ LateIdle
    /\ FanIdle
    /\ RetryIdle
    /\ SharpeIdle
    /\ TkIdle
    /\ ScoreIdle

\* fetch_data: load_markets raises and nothing is fetched, or the markets are
\* walked in order.
FetchData ==
    /\ vh_pc = "fetch"
    /\ \/ /\ vh_active' = {}
          /\ vh_requested' = {}
          /\ vh_failed' = {}
          /\ vh_stored' = {}
          /\ vh_data' = vh_data
       \/ \E answers \in [1..Len(Markets) -> SymbolAnswers] :
            LET out == FetchFrom([data |-> vh_data, requested |-> {}, failed |-> {},
                                  stored |-> {}], answers, 1, vh_poll)
            IN  /\ vh_active' = {Markets[i] : i \in {j \in 1..Len(Markets) :
                                                      answers[j].kind # "inactive"}}
                /\ vh_requested' = out.requested
                /\ vh_failed' = out.failed
                /\ vh_stored' = out.stored
                /\ vh_data' = out.data
    /\ vh_pc' = "calculate"
    /\ vh_evaluated' = {}
    /\ vh_opportunities' = <<>>
    /\ UNCHANGED vh_poll
    /\ UNCHANGED notHunter

\* calculate_volatility: the volatility column of every frame of self.data.
CalculateVolatility ==
    /\ vh_pc = "calculate"
    /\ vh_data' = [i \in 1..Len(vh_data) |->
                      [vh_data[i] EXCEPT !.volatility = <<F(vh_data[i].scaled_std)>>]]
    /\ vh_pc' = "identify"
    /\ UNCHANGED <<vh_poll, vh_active, vh_requested, vh_failed, vh_stored,
                   vh_evaluated, vh_opportunities>>
    /\ UNCHANGED notHunter

\* calculate_score: vol_score is assigned volatility * 2 and then
\* volume / 1000000; the sum adds vol_score twice.
calculate_score(volatility, last_volume, trend) ==
    LET vol_score_1 == FMul(volatility, F(2))
        vol_score == Frac(last_volume, VOLUME_UNIT)
        trend_score == IF trend = "up" THEN F(1) ELSE Frac(1, 2)
    IN  FDiv(FAdd(FAdd(vol_score, vol_score), trend_score), F(3))

\* np.mean of the latest volatility of every frame (NaN for no frame).
AvgVolatility(data) ==
    LET RECURSIVE Sum(_)
        Sum(i) == IF i = 0 THEN F(0) ELSE FAdd(Sum(i - 1), data[i].volatility[1])
    IN  FDiv(Sum(Len(data)), F(Len(data)))

\* sorted(opportunities, key=score, reverse=True): stable.
RECURSIVE InsertByScore(_, _)
InsertByScore(s, x) ==
    IF s = <<>> THEN <<x>>
    ELSE IF FGt(x.score, s[1].score) THEN <<x>> \o s
    ELSE <<s[1]>> \o InsertByScore(Tail(s), x)

RECURSIVE SortedByScore(_)
SortedByScore(s) ==
    IF s = <<>> THEN <<>>
    ELSE InsertByScore(SortedByScore(SubSeq(s, 1, Len(s) - 1)), s[Len(s)])

Opportunity(frame) ==
    LET trend == IF frame.last_close > frame.first_close THEN "up" ELSE "down"
    IN  [symbol |-> frame.symbol, volatility |-> frame.volatility[1],
         volume |-> frame.volume, price |-> frame.last_close, trend |-> trend,
         score |-> calculate_score(frame.volatility[1], frame.volume, trend)]

Qualifies(frame, avg_volatility) ==
    FGt(frame.volatility[1], FMul(avg_volatility, Frac(THRESHOLD_TENTHS, 10)))

RECURSIVE Opportunities(_, _, _)
Opportunities(data, avg_volatility, i) ==
    IF i > Len(data) THEN <<>>
    ELSE (IF Qualifies(data[i], avg_volatility) THEN <<Opportunity(data[i])>> ELSE <<>>)
            \o Opportunities(data, avg_volatility, i + 1)

\* identify_opportunities: every frame of self.data is evaluated.
IdentifyOpportunities ==
    /\ vh_pc = "identify"
    /\ vh_evaluated' = Keys(vh_data)
    /\ vh_opportunities' = SortedByScore(Opportunities(vh_data, AvgVolatility(vh_data), 1))
    /\ vh_pc' = "report"
    /\ UNCHANGED <<vh_data, vh_poll, vh_active, vh_requested, vh_failed, vh_stored>>
    /\ UNCHANGED notHunter

\* generate_report and time.sleep(3600): the next iteration of run.
GenerateReport ==
    /\ vh_pc = "report"
    /\ vh_poll < MaxPolls
    /\ vh_pc' = "fetch"
    /\ vh_poll' = vh_poll + 1
    /\ UNCHANGED <<vh_data, vh_active, vh_requested, vh_failed, vh_stored,
                   vh_evaluated, vh_opportunities>>
    /\ UNCHANGED notHunter

HunterNext == FetchData \/ CalculateVolatility \/ IdentifyOpportunities \/ GenerateReport

SpecHunter == HunterInit /\ [][HunterNext]_vars

\* C11: in fetch_data a failure while fetching the bars of one symbol is
\* isolated to that symbol: every other active symbol of the market list is
\* still fetched in the same poll.
C11_FailureIsolated ==
    vh_pc = "calculate" =>
        (vh_failed # {} => vh_active \ vh_failed \subseteq vh_requested)

\* C14: the symbols identify_opportunities evaluates in an iteration are
\* exactly those whose bars were fetched in that same iteration.
C14_EvaluatedAreFetchedNow ==
    vh_pc = "report" => vh_evaluated = vh_stored

\* C19: calculate_score rewards volatility: with the volume and trend of an
\* opportunity, a strictly higher volatility gives a strictly higher score.
C19_ScoreRewardsVolatility ==
    vh_pc = "report" =>
        \A i \in 1..Len(vh_opportunities) : \A a \in FullAnswers :
            LET o == vh_opportunities[i]
            IN  FGt(F(a.scaled_std), o.volatility) =>
                    FGt(calculate_score(F(a.scaled_std), o.volume, o.trend), o.score)

(***************************************************************************)
(* find_promising_stocks (StockRadar.py): one analyze_stock task per       *)
(* ticker on a thread pool, collected as the tasks complete, then ranked.  *)
(***************************************************************************)
MaxTickers == 3        \* tickers handed to find_promising_stocks

MaxTopN == 4           \* largest number of stocks the user asks for

Tickers == 1..MaxTickers

\* What yfinance does for one ticker: the request raises, the history is
\* empty, the history does not meet the rule, or it meets it with this
\* potential gain (percent).
TickerAnswers ==
    {[kind |-> k, gain |-> 0] : k \in {"raises", "empty", "unpromising"}}
        \cup {[kind |-> "promising", gain |-> g] : g \in {3, 5}}

get_stock_data_uncaught(answer) ==
    IF answer.kind = "raises" THEN "raised"
    ELSE IF answer.kind = "empty" THEN "none"
    ELSE "history"

\* get_stock_data: (None, None) for an exception or an empty history.
get_stock_data(answer) ==
    IF answer.kind = "raises" THEN "none"
    ELSE IF answer.kind = "empty" THEN "none"
    ELSE "history"

\* The outcome of the task executor.submit(analyze_stock, ticker): None, the
\* opportunity, or the exception the call raised (kept by the future).
TaskResult(ticker, answer) ==
    LET data == get_stock_data(answer)
    IN  IF data = "raised" THEN [raised |-> TRUE, value |-> <<>>]
        ELSE IF data = "none" THEN [raised |-> FALSE, value |-> <<>>]
        ELSE IF answer.kind = "promising"
        THEN [raised |-> FALSE,
              value |-> <<[ticker |-> ticker,
                           potential_gain_percentage |-> F(answer.gain)]>>]
        ELSE [raised |-> FALSE, value |-> <<>>]

\* sorted(..., key=potential_gain_percentage, reverse=True): stable.
RECURSIVE InsertByGain(_, _)
InsertByGain(s, x) ==
    IF s = <<>> THEN <<x>>
    ELSE IF FGt(x.potential_gain_percentage, s[1].potential_gain_percentage)
    THEN <<x>> \o s
    ELSE <<s[1]>> \o InsertByGain(Tail(s), x)

RECURSIVE SortedByGainAscending(_)
SortedByGainAscending(s) ==
    IF s = <<>> THEN <<>>
    ELSE SortedByGainAscending(SubSeq(s, 1, Len(s) - 1))
            \o <<s[Len(s)]>>

RECURSIVE SortedByGain(_)
SortedByGain(s) ==
    IF s = <<>> THEN <<>>
    ELSE InsertByGain(SortedByGain(SubSeq(s, 1, Len(s) - 1)), s[Len(s)])

FanInit ==
    /\ fi_answers \in [Tickers -> TickerAnswers]
    /\ fi_task = <<>>
    /\ fi_result = <<>>
    /\ promising_stocks = <<>>
    /\ fi_pc = "start"
    /\ fi_returned = <<>>
    /\ top_n = 0
    /\ fi_shown = <<>>
    /\ CoreIdle
    /\ LateIdle
    /\ HunterIdle
    /\ RetryIdle
    /\ SharpeIdle
    /\ TkIdle
    /\ ScoreIdle

\* futures = {executor.submit(analyze_stock, ticker): ticker for ticker in tickers}
SubmitAll ==
    /\ fi_pc = "start"
    /\ fi_task' = [t \in Tickers |-> "submitted"]
    /\ fi_result' = [t \in Tickers |-> [raised |-> FALSE, value |-> <<>>]]
    /\ fi_pc' = "collecting"
    /\ UNCHANGED <<fi_answers, promising_stocks, fi_returned, top_n, fi_shown>>
    /\ UNCHANGED notFan

\* A worker thread runs analyze_stock(ticker) to its end.
TaskFinishes ==
    /\ fi_pc = "collecting"
    /\ \E t \in Tickers :
        /\ fi_task[t] = "submitted"
        /\ fi_task' = [fi_task EXCEPT ![t] = "finished"]
        /\ fi_result' = [fi_result EXCEPT ![t] = TaskResult(t, fi_answers[t])]
    /\ UNCHANGED <<fi_answers, promising_stocks, fi_pc, fi_returned, top_n, fi_shown>>
    /\ UNCHANGED notFan

\* One turn of the as_completed loop: future.result() returns the task's
\* value or raises its exception, which leaves find_promising_stocks.
CollectResult ==
    /\ fi_pc = "collecting"
    /\ \E t \in Tickers :
        /\ fi_task[t] = "finished"
        /\ fi_task' = [fi_task EXCEPT ![t] = "consumed"]
        /\ IF fi_result[t].raised
           THEN fi_pc' = "aborted" /\ UNCHANGED promising_stocks
           ELSE /\ fi_pc' = fi_pc
                /\ promising_stocks' = promising_stocks \o fi_result[t].value
    /\ UNCHANGED <<fi_answers, fi_result, fi_returned, top_n, fi_shown>>
    /\ UNCHANGED notFan

\* as_completed is exhausted: the pool is shut down and the sorted list
\* returned.
ReturnSorted ==
    /\ fi_pc = "collecting"
    /\ \A t \in Tickers : fi_task[t] = "consumed"
    /\ fi_returned' = SortedByGain(promising_stocks)
    /\ fi_pc' = "returned"
    /\ UNCHANGED <<fi_answers, fi_task, fi_result, promising_stocks, top_n, fi_shown>>
    /\ UNCHANGED notFan

\* main: with a non-empty list, the user gives top_n > 0 and
\* promising_stocks[:top_n] is printed.
ShowTop ==
    /\ fi_pc = "returned"
    /\ fi_returned # <<>>
    /\ \E n \in 1..MaxTopN :
        /\ top_n' = n
        /\ fi_shown' = Take(fi_returned, n)
    /\ fi_pc' = "shown"
    /\ UNCHANGED <<fi_answers, fi_task, fi_result, promising_stocks, fi_returned>>
    /\ UNCHANGED notFan

FanNext == SubmitAll \/ TaskFinishes \/ CollectResult \/ ReturnSorted \/ ShowTop

SpecFanIn == FanInit /\ [][FanNext]_vars

QualifyingTickers == {t \in Tickers : fi_answers[t].kind = "promising"}

ReturnedTickers == {fi_returned[i].ticker : i \in 1..Len(fi_returned)}

\* C12: a failure while fetching one ticker's history yields no result for
\* that ticker and never aborts the batch: find_promising_stocks still
\* returns the result of every other ticker that qualifies.
C12_FetchFailureSkipsTicker ==
    /\ fi_pc # "aborted"
    /\ fi_pc \in {"returned", "shown"} =>
          /\ \A t \in Tickers : fi_answers[t].kind = "raises" => t \notin ReturnedTickers
          /\ QualifyingTickers \subseteq ReturnedTickers

\* The batch has returned an opportunity although the fetch of another ticker
\* failed.
C12_Witness ==
    /\ fi_pc = "returned"
    /\ \E t \in Tickers : fi_answers[t].kind = "raises"
    /\ fi_returned # <<>>

\* C15: find_promising_stocks returns only after every submitted task has
\* finished; the list holds exactly the non-None task results, one per
\* qualifying ticker, in non-increasing order of potential gain; main shows
\* its first min(top_n, length) entries.
C15_RankAfterFanIn ==
    /\ fi_pc \in {"returned", "shown"} =>
          /\ \A t \in Tickers : fi_task[t] = "consumed"
          /\ ReturnedTickers = QualifyingTickers
          /\ Len(fi_returned) = Cardinality(QualifyingTickers)
          /\ \A i \in 1..Len(fi_returned) :
                fi_returned[i] = fi_result[fi_returned[i].ticker].value[1]
          /\ \A i \in 1..(Len(fi_returned) - 1) :
                FGe(fi_returned[i].potential_gain_percentage,
                    fi_returned[i + 1].potential_gain_percentage)
    /\ fi_pc = "shown" =>
          /\ Len(fi_shown) = (IF top_n < Len(fi_returned) THEN top_n ELSE Len(fi_returned))
          /\ \A i \in 1..Len(fi_shown) : fi_shown[i] = fi_returned[i]

\* Three opportunities were collected out of gain order, and fewer were asked
\* for than returned.
C15_Witness ==
    /\ fi_pc = "shown"
    /\ Len(fi_returned) = MaxTickers
    /\ promising_stocks # fi_returned
    /\ top_n < Len(fi_returned)

(***************************************************************************)
(* get_coinbase_cryptos (FluctuationScout.py): the product list, requested *)
(* up to max_retries times.                                                *)
(***************************************************************************)
MaxProducts == 3       \* most products in one answer

MAX_RETRIES == 3

RETRY_DELAY == 5

Products ==
    {[base_currency |-> "BTC", quote_currency |-> "USD"],
     [base_currency |-> "ETH", quote_currency |-> "USD"],
     [base_currency |-> "SOL", quote_currency |-> "USD"],
     [base_currency |-> "ETH", quote_currency |-> "EUR"]}

ProductLists == SeqsUpTo(Products, MaxProducts)

\* [f"{p['base_currency']}-USD" for p in products if p['quote_currency'] == 'USD']
RECURSIVE crypto_list(_)
crypto_list(products) ==
    IF products = <<>> THEN <<>>
    ELSE (IF products[1].quote_currency = "USD"
          THEN <<<<products[1].base_currency, "USD">>>> ELSE <<>>)
            \o crypto_list(Tail(products))

SleepsAfterEvery(n) == <<RETRY_DELAY>>

\* if attempt < max_retries - 1: time.sleep(retry_delay)
SleepsAfter(n) == IF n < MAX_RETRIES - 1 THEN <<RETRY_DELAY>> ELSE <<>>

RetryInit ==
    /\ gc_pc = "running"
    /\ attempt = 0
    /\ gc_requests = 0
    /\ gc_slept = <<>>
    /\ gc_log = <<>>
    /\ gc_result = <<>>
    /\ CoreIdle
    /\ LateIdle
    /\ HunterIdle
    /\ FanIdle
    /\ SharpeIdle
    /\ TkIdle
    /\ ScoreIdle

\* One turn of the for loop: the request succeeds and the list is returned;
\* it fails with a RequestException, and the function sleeps and goes on, or
\* gives up with []; or another exception leaves the function.
Attempt ==
    /\ gc_pc = "running"
    /\ attempt < MAX_RETRIES
    /\ gc_requests' = gc_requests + 1
    /\ \/ \E products \in ProductLists :
            /\ gc_log' = Append(gc_log, "ok")
            /\ gc_result' = <<crypto_list(products)>>
            /\ gc_pc' = "returned"
            /\ UNCHANGED <<attempt, gc_slept>>
       \/ /\ gc_log' = Append(gc_log, "request_error")
          /\ gc_slept' = gc_slept \o SleepsAfter(attempt)
          /\ IF attempt < MAX_RETRIES - 1
             THEN /\ attempt' = attempt + 1
                  /\ UNCHANGED <<gc_pc, gc_result>>
             ELSE /\ gc_result' = << <<>> >>
                  /\ gc_pc' = "returned"
                  /\ UNCHANGED attempt
       \/ /\ gc_log' = Append(gc_log, "other_error")
          /\ gc_pc' = "raised"
          /\ UNCHANGED <<attempt, gc_slept, gc_result>>
    /\ UNCHANGED notRetry

RetryNext == Attempt

SpecRetry == RetryInit /\ [][RetryNext]_vars

\* C13: get_coinbase_cryptos makes at most 3 requests; it returns the symbol
\* list at the first successful attempt, sleeps the 5-second delay only
\* between attempts (never after the last one), and returns an empty list
\* when all 3 attempts fail with a request error.
C13_AtMostThreeAttempts ==
    /\ gc_requests <= MAX_RETRIES
    /\ gc_requests = Len(gc_log)
    /\ gc_pc = "running" => gc_requests < MAX_RETRIES
    /\ \A i \in 1..Len(gc_slept) : gc_slept[i] = RETRY_DELAY
    /\ gc_pc = "running" => Len(gc_slept) = gc_requests
    /\ gc_pc # "running" => Len(gc_slept) = gc_requests - 1
    /\ \A i \in 1..(Len(gc_log) - 1) : gc_log[i] = "request_error"
    /\ (gc_pc = "returned" /\ gc_log[Len(gc_log)] = "ok") =>
          \E products \in ProductLists : gc_result = <<crypto_list(products)>>
    /\ (gc_requests = MAX_RETRIES /\ gc_log[MAX_RETRIES] = "request_error") =>
          gc_pc = "returned" /\ gc_result = << <<>> >>

\* All three attempts failed: two delays were slept and [] returned.
C13_Witness ==
    /\ gc_pc = "returned"
    /\ gc_log = <<"request_error", "request_error", "request_error">>
    /\ gc_slept = <<RETRY_DELAY, RETRY_DELAY>>
    /\ gc_result = << <<>> >>

(***************************************************************************)
(* The annualized volatility and the Sharpe ratio of calculate_metrics     *)
(* (VolatilityRadar.py, scrap.py).                                         *)
(***************************************************************************)
MaxSharpeBars == 15    \* longest frame handed to calculate_metrics

MaxSharpeTail == 3     \* most bars after the change of rate of a frame

DAYS_PER_YEAR == 365

\* n closes that change by the factor 2^e1 per bar up to the last `tail` bars
\* and by 2^e2 over those: halving, constant or doubling legs.
Geometric(n, tail, e1, e2) ==
    [i \in 1..n |->
        IF i <= n - tail THEN 2 ^ (15 + e1 * (i - 1))
        ELSE 2 ^ (15 + e1 * (n - tail - 1) + e2 * (i - (n - tail)))]

SharpeFrames ==
    {Geometric(n, tail, e1, e2) :
        n \in (MIN_ROWS_RSI - 1)..MaxSharpeBars, tail \in 0..MaxSharpeTail,
        e1 \in {-1, 0, 1}, e2 \in {-1, 0, 1}}

\* Series.std() squared: the sample variance (ddof = 1) of the defined
\* entries, NaN for fewer than two.
Variance(s) ==
    LET defined == SelectSeq(s, LAMBDA x : ~IsNaN(x))
        mean == Mean(s)
        squares == [i \in 1..Len(defined) |->
                       FMul(FSub(defined[i], mean), FSub(defined[i], mean))]
    IN  IF Len(defined) < 2 THEN NaN
        ELSE FDiv(FSum(squares), F(Len(defined) - 1))

\* volatility = returns.std() * sqrt(365), kept as its square.
VolatilitySquared(returns) == FMul(Variance(returns), F(DAYS_PER_YEAR))

\* sharpe_ratio = (returns.mean() * 365) / volatility, kept as
\* sharpe_ratio * |sharpe_ratio| / 365 = mean * |mean| / variance: NaN, +inf,
\* -inf, zero, positive or negative exactly when sharpe_ratio is.
SharpeRatio(returns) ==
    LET mean == Mean(returns)
    IN  FDiv(FMul(mean, FAbs(mean)), Variance(returns))

SharpeInit ==
    /\ sh_script \in {"VolatilityRadar", "scrap"}
    /\ sh_closes = <<>>
    /\ sh_pc = "start"
    /\ sh_metrics = <<>>
    /\ CoreIdle
    /\ LateIdle
    /\ HunterIdle
    /\ FanIdle
    /\ RetryIdle
    /\ TkIdle
    /\ ScoreIdle

\* calculate_metrics: NaNs for fewer than 14 rows, else the volatility and
\* the Sharpe ratio of the returns.
CalculateSharpe ==
    /\ sh_pc = "start"
    /\ \E c \in SharpeFrames :
        /\ sh_closes' = c
        /\ sh_metrics' =
              IF Len(c) < MIN_ROWS_RSI
              THEN <<[volatility_squared |-> NaN, sharpe_ratio |-> NaN]>>
              ELSE <<[volatility_squared |-> VolatilitySquared(PctChange(c)),
                      sharpe_ratio |-> SharpeRatio(PctChange(c))]>>
    /\ sh_pc' = "done"
    /\ UNCHANGED sh_script
    /\ UNCHANGED notSharpe

SharpeNext == CalculateSharpe

SpecSharpe == SharpeInit /\ [][SharpeNext]_vars

\* C16: the Sharpe ratio of calculate_metrics is NaN, never infinite,
\* whenever the volatility is zero: for constant closes and for any other
\* closes whose bar-to-bar returns are all equal.
C16_SharpeUndefinedAtZeroVolatility ==
    (sh_pc = "done" /\ IsZero(sh_metrics[1].volatility_squared)) =>
        IsNaN(sh_metrics[1].sharpe_ratio)

(***************************************************************************)
(* The Tk GUI of default-crypto-drop-checker.py: the Run Analysis button   *)
(* rewrites the module-level configuration and starts a thread that runs   *)
(* main(); update_gui polls the queue on the GUI thread.                   *)
(***************************************************************************)
MaxRuns == 2           \* clicks on Run Analysis followed

MaxReads == 2          \* reads of the configuration followed in one main()

\* The globals run_analysis assigns, in the order it assigns them.
Globals ==
    <<"ANALYSIS_TYPE", "MIN_FLUCTUATION", "MAX_FLUCTUATION", "CONSECUTIVE_WEEKS",
      "LOOKBACK_WEEKS", "MAX_INSTRUMENTS_TO_ANALYZE", "MANUAL_SYMBOLS">>

\* The globals whose entry text goes through float() or int().
Converted == 2..6

\* The text of the entries at a click: every entry holds the value v, and
\* entry `invalid` (0: none) does not convert.
Forms ==
    {[value |-> v, invalid |-> k] : v \in 1..MaxRuns, k \in {0} \cup Converted}

\* The assignments of run_analysis: a ValueError of float() or int() leaves
\* the handler, the globals assigned before it rewritten.
WriteGlobals(config, form) ==
    [g \in 1..Len(Globals) |->
        IF form.invalid = 0 \/ g < form.invalid THEN form.value ELSE config[g]]

ButtonLeftEnabled == "normal"

\* self.run_button.config(state='disabled')
ButtonAfterClick == "disabled"

Running == {i \in 1..Len(tk_thread) : tk_thread[i].pc = "running"}

TkInit ==
    /\ tk_config = [g \in 1..Len(Globals) |-> 0]
    /\ tk_button = "normal"
    /\ tk_thread = <<>>
    /\ tk_queue = <<>>
    /\ CoreIdle
    /\ LateIdle
    /\ HunterIdle
    /\ FanIdle
    /\ RetryIdle
    /\ SharpeIdle
    /\ ScoreIdle

\* run_analysis, the command of the button: a disabled button ignores the
\* click.
RunAnalysis ==
    /\ tk_button = "normal"
    /\ Len(tk_thread) < MaxRuns
    /\ \E form \in Forms :
        /\ tk_config' = WriteGlobals(tk_config, form)
        /\ IF form.invalid = 0
           THEN /\ tk_button' = ButtonAfterClick
                /\ tk_thread' = Append(tk_thread, [pc |-> "running", read |-> <<>>])
           ELSE UNCHANGED <<tk_button, tk_thread>>
    /\ UNCHANGED tk_queue
    /\ UNCHANGED notTk

\* threaded_analysis inside main(): the thread reads the globals.
ThreadReads ==
    /\ \E i \in Running :
        /\ Len(tk_thread[i].read) < MaxReads
        /\ tk_thread' = [tk_thread EXCEPT ![i].read = Append(@, tk_config)]
    /\ UNCHANGED <<tk_config, tk_button, tk_queue>>
    /\ UNCHANGED notTk

\* threaded_analysis: main() has returned and "Analysis Complete" is queued.
ThreadCompletes ==
    /\ \E i \in Running :
        /\ tk_thread' = [tk_thread EXCEPT ![i].pc = "finished"]
        /\ tk_queue' = Append(tk_queue, "Analysis Complete")
    /\ UNCHANGED <<tk_config, tk_button>>
    /\ UNCHANGED notTk

\* threaded_analysis: main() raises and the thread ends without a message.
ThreadDies ==
    /\ \E i \in Running :
        tk_thread' = [tk_thread EXCEPT ![i].pc = "died"]
    /\ UNCHANGED <<tk_config, tk_button, tk_queue>>
    /\ UNCHANGED notTk

\* update_gui with a message in the queue: the button is enabled again.  (With
\* an empty queue it changes nothing.)
UpdateGui ==
    /\ tk_queue # <<>>
    /\ tk_queue' = Tail(tk_queue)
    /\ tk_button' = IF Head(tk_queue) = "Analysis Complete" THEN "normal" ELSE tk_button
    /\ UNCHANGED <<tk_config, tk_thread>>
    /\ UNCHANGED notTk

TkNext == RunAnalysis \/ ThreadReads \/ ThreadCompletes \/ ThreadDies \/ UpdateGui

SpecTk == TkInit /\ [][TkNext]_vars

\* C17: the module-level configuration is never written while an analysis
\* thread is running, at most one analysis thread runs at a time, and the Run
\* button is disabled from the click that starts a run until the 'Analysis
\* Complete' message of that run is processed.
C17_ConfigStableWhileRunning ==
    /\ [](/\ Cardinality(Running) <= 1
          /\ (Running # {} \/ tk_queue # <<>>) => tk_button = "disabled"
          /\ \A i \in Running : \A r \in 1..Len(tk_thread[i].read) :
                tk_thread[i].read[r] = tk_config)
    /\ [][tk_config' # tk_config => Running = {}]_vars

\* A second run was started with another configuration once the message of
\* the first one had been processed, and it is reading its configuration.
C17_Witness ==
    /\ Len(tk_thread) = 2
    /\ tk_thread[1].pc = "finished"
    /\ tk_thread[1].read # <<>>
    /\ tk_thread[2].pc = "running"
    /\ tk_thread[2].read # <<>>
    /\ tk_thread[2].read[1] # tk_thread[1].read[1]
    /\ tk_button = "disabled"

\* C18: every defined RSI value is computed from exactly 14 actual
\* day-over-day deltas: the missing delta of the first bar is never counted
\* as a zero change, so the RSI is undefined at every bar before the 15th,
\* and at the last bar of a history of fewer than 15 bars.
C18_RsiFromFourteenDeltas ==
    /\ DirectCallDone =>
          \A i \in Bars : ~IsNaN(ind.RSI[i]) => i >= RSI_WINDOW + 1
    /\ (ScriptDone /\ Len(history) < RSI_WINDOW + 1) => IsNaN(ind.RSI)

(***************************************************************************)
(* score_currency, the ranking score of select_investment_options          *)
(* (scrap.py).                                                             *)
(***************************************************************************)
WEIGHT_PERCENT == 20   \* each sub-score * 0.2

RSI_NEUTRAL == 50

SHARPE_CAP == 3

STRENGTH_CAP == 2

PERFORMANCE_RANGE == 10    \* (price_change_7d + 10) / 20

\* The rows scored: the fields of a result row that score_currency reads.
ScoredRows ==
    [rsi : {F(0), F(25), F(50), F(100), NaN},
     volatility : {F(0), Frac(1, 2), F(1), F(3)},
     sharpe_ratio : {NaN, Inf(-1), F(-1), F(0), Frac(3, 2), F(5), Inf(1)},
     price_change_7d : {F(-30), F(-10), F(0), F(10), F(30)},
     relative_strength : {F(0), F(1), F(2), F(5), NaN}]

score_currency_uncapped(row) ==
    LET weight == Frac(WEIGHT_PERCENT, 100)
        rsi_score == FSub(F(1), FDiv(FAbs(FSub(row.rsi, F(RSI_NEUTRAL))), F(RSI_NEUTRAL)))
        volatility_score == FSub(F(1), PyMin(row.volatility, F(1)))
        sharpe_score == FDiv(PyMin(PyMax(row.sharpe_ratio, F(0)), F(SHARPE_CAP)), F(SHARPE_CAP))
        performance_score ==
            FDiv(FAdd(row.price_change_7d, F(PERFORMANCE_RANGE)), F(2 * PERFORMANCE_RANGE))
        strength_score == FDiv(row.relative_strength, F(STRENGTH_CAP))
    IN  [rsi_score |-> rsi_score, volatility_score |-> volatility_score,
         sharpe_score |-> sharpe_score, performance_score |-> performance_score,
         strength_score |-> strength_score,
         total_score |->
            FAdd(FAdd(FAdd(FAdd(FMul(rsi_score, weight), FMul(volatility_score, weight)),
                           FMul(sharpe_score, weight)),
                      FMul(performance_score, weight)),
                 FMul(strength_score, weight))]

\* score_currency: the five sub-scores and their weighted sum.
score_currency(row) ==
    LET weight == Frac(WEIGHT_PERCENT, 100)
        rsi_score == FSub(F(1), FDiv(FAbs(FSub(row.rsi, F(RSI_NEUTRAL))), F(RSI_NEUTRAL)))
        volatility_score == FSub(F(1), PyMin(row.volatility, F(1)))
        sharpe_score == FDiv(PyMin(PyMax(row.sharpe_ratio, F(0)), F(SHARPE_CAP)), F(SHARPE_CAP))
        performance_score ==
            FDiv(FAdd(row.price_change_7d, F(PERFORMANCE_RANGE)), F(2 * PERFORMANCE_RANGE))
        strength_score == FDiv(PyMin(row.relative_strength, F(STRENGTH_CAP)), F(STRENGTH_CAP))
    IN  [rsi_score |-> rsi_score, volatility_score |-> volatility_score,
         sharpe_score |-> sharpe_score, performance_score |-> performance_score,
         strength_score |-> strength_score,
         total_score |->
            FAdd(FAdd(FAdd(FAdd(FMul(rsi_score, weight), FMul(volatility_score, weight)),
                           FMul(sharpe_score, weight)),
                      FMul(performance_score, weight)),
                 FMul(strength_score, weight))]

ScoreInit ==
    /\ currency_data \in ScoredRows
    /\ sc_score = <<>>
    /\ CoreIdle
    /\ LateIdle
    /\ HunterIdle
    /\ FanIdle
    /\ RetryIdle
    /\ SharpeIdle
    /\ TkIdle

ScoreCurrency ==
    /\ sc_score = <<>>
    /\ sc_score' = <<score_currency(currency_data)>>
    /\ UNCHANGED currency_data
    /\ UNCHANGED notScore

ScoreNext == ScoreCurrency

SpecScore == ScoreInit /\ [][ScoreNext]_vars

InUnit(x) == FLe(F(0), x) /\ FLe(x, F(1))

AllInUnit(score) ==
    /\ InUnit(score.rsi_score)
    /\ InUnit(score.volatility_score)
    /\ InUnit(score.sharpe_score)
    /\ InUnit(score.performance_score)
    /\ InUnit(score.strength_score)
    /\ InUnit(score.total_score)

\* The inputs the claim is about: RSI in [0, 100], volatility >= 0 and
\* relative strength >= 0.
ScoredAsClaimed ==
    /\ sc_score # <<>>
    /\ FLe(F(0), currency_data.rsi) /\ FLe(currency_data.rsi, F(100))
    /\ FGe(currency_data.volatility, F(0))
    /\ FGe(currency_data.relative_strength, F(0))

\* C20 as stated: each of the five sub-scores and the total score lie in
\* [0, 1] for every such input, whatever the 7-day price change is.
C20_ScoresInUnitInterval ==
    ScoredAsClaimed => AllInUnit(sc_score[1])

PerformanceInRange ==
    /\ FLe(F(0 - PERFORMANCE_RANGE), currency_data.price_change_7d)
    /\ FLe(currency_data.price_change_7d, F(PERFORMANCE_RANGE))

\* C20 amended: the sub-scores and the total lie in [0, 1] for every such
\* input whose 7-day price change is in [-10, 10] and whose Sharpe ratio is
\* not NaN.  The performance sub-score is (price_change_7d + 10) / 20 without
\* a cap, below 0 or above 1 outside that range; a NaN Sharpe ratio gives a
\* NaN Sharpe sub-score and a NaN total.
C20_ScoresInUnitIntervalInRange ==
    ScoredAsClaimed =>
        /\ (PerformanceInRange /\ ~IsNaN(currency_data.sharpe_ratio)) =>
              AllInUnit(sc_score[1])
        /\ FGt(currency_data.price_change_7d, F(PERFORMANCE_RANGE)) =>
              FGt(sc_score[1].performance_score, F(1))
        /\ FLt(currency_data.price_change_7d, F(0 - PERFORMANCE_RANGE)) =>
              FLt(sc_score[1].performance_score, F(0))
        /\ IsNaN(currency_data.sharpe_ratio) =>
              IsNaN(sc_score[1].sharpe_score) /\ IsNaN(sc_score[1].total_score)

\* A row with a relative strength above the cap and an infinite Sharpe ratio
\* was scored 1.
C20_Witness ==
    /\ ScoredAsClaimed
    /\ PerformanceInRange
    /\ currency_data.relative_strength = F(5)
    /\ currency_data.sharpe_ratio = Inf(1)
    /\ sc_score[1].total_score = F(1)

(***************************************************************************)
(* check_fluctuation (default-crypto-drop-checker.py): the daily closes of *)
(* the last WEEKS_TO_CHECK + 1 weeks, their day-over-day moves, and the    *)
(* largest move of each calendar week.                                     *)
(***************************************************************************)
MaxCfBars == 4         \* daily closes get_crypto_data answers

MaxCfWeeks == 4        \* calendar weeks the closes are spread over

FLUCTUATION_THRESHOLD == 1

WEEKS_TO_CHECK == 3

CfCloses == {100, 101, 102}

\* The closes of a symbol, oldest first, each with the calendar week of its
\* day: the weeks never go back, and a week may have no bar at all.
CfSeries ==
    {<<>>} \cup
    {s \in SeqsUpTo([week : 1..MaxCfWeeks, close : CfCloses], MaxCfBars) :
        \A i \in 1..(Len(s) - 1) : s[i].week <= s[i + 1].week}

\* (prices.pct_change() * 100).abs()
DailyFluctuation(prices) ==
    LET change == PctChange([i \in 1..Len(prices) |-> prices[i].close])
    IN  [i \in 1..Len(prices) |-> FAbs(FMul(change[i], F(100)))]

\* The bins of resample('W'): every calendar week from the week of the first
\* bar to the week of the last one.
WeekBins(prices) ==
    IF prices = <<>> THEN <<>>
    ELSE [k \in 1..(prices[Len(prices)].week - prices[1].week + 1) |->
            prices[1].week + k - 1]

\* max() of a bin skips NaN; a bin with no defined value has the maximum NaN.
BinMax(values) ==
    IF values = {} THEN NaN
    ELSE CHOOSE x \in values : \A y \in values : FGe(x, y)

\* calculate_weekly_fluctuation
calculate_weekly_fluctuation(prices) ==
    LET fluctuation == DailyFluctuation(prices)
        bins == WeekBins(prices)
    IN  [k \in 1..Len(bins) |->
            BinMax({fluctuation[i] : i \in {j \in 1..Len(prices) :
                        /\ prices[j].week = bins[k]
                        /\ ~IsNaN(fluctuation[j])}})]

\* Series.tail(n)
TailOf(s, n) == IF Len(s) <= n THEN s ELSE SubSeq(s, Len(s) - n + 1, Len(s))

\* check_fluctuation: any exception is caught and answered with False.
check_fluctuation(answer) ==
    IF answer.raised THEN FALSE
    ELSE IF Len(answer.bars) < WEEKS_TO_CHECK THEN FALSE
    ELSE LET last_weeks == TailOf(calculate_weekly_fluctuation(answer.bars), WEEKS_TO_CHECK)
         IN  \A k \in 1..Len(last_weeks) : FGe(last_weeks[k], F(FLUCTUATION_THRESHOLD))

CfInit ==
    /\ cf_prices \in [raised : {FALSE}, bars : CfSeries]
                        \cup {[raised |-> TRUE, bars |-> <<>>]}
    /\ cf_result = <<>>
    /\ CoreIdle
    /\ ExtIdle
    /\ TrIdle
    /\ DipIdle
    /\ WinIdle
    /\ QtIdle
    /\ CwIdle

CheckFluctuation ==
    /\ cf_result = <<>>
    /\ cf_result' = <<check_fluctuation(cf_prices)>>
    /\ UNCHANGED cf_prices
    /\ UNCHANGED notCf

CfNext == CheckFluctuation

SpecFluctuation == CfInit /\ [][CfNext]_vars

\* The weekly periods the data covers.
WeeklyPeriods == Len(WeekBins(cf_prices.bars))

\* C21: check_fluctuation returns True only if the data covers at least
\* WEEKS_TO_CHECK weekly periods and the fluctuation of each of the last
\* WEEKS_TO_CHECK weekly periods is defined and >= FLUCTUATION_THRESHOLD; with
\* fewer weekly periods it returns False.
C21_TrueOnlyWithEnoughWeeks ==
    cf_result = <<TRUE>> =>
        /\ WeeklyPeriods >= WEEKS_TO_CHECK
        /\ LET weekly_fluctuation == calculate_weekly_fluctuation(cf_prices.bars)
           IN  \A k \in (Len(weekly_fluctuation) - WEEKS_TO_CHECK + 1)
                            ..Len(weekly_fluctuation) :
                    FGe(weekly_fluctuation[k], F(FLUCTUATION_THRESHOLD))

(***************************************************************************)
(* simulate_trading_strategy and calculate_strategy_performance            *)
(* (VolatilityRadar.py): buy after a dip of 5%, sell after a rise of 5%.   *)
(***************************************************************************)
MaxTrBars == 5         \* rows of the frame handed to the simulation

BUY_DIP_PERCENTAGE == 5

SELL_RISE_PERCENTAGE == 5

TrCloses == {0, 90, 95, 100, 105}

\* df['close'] <= df['close'].shift(1) * (1 - buy_dip_percentage/100); the
\* shifted close of the first row is NaN and the comparison false.
buy_signal(c, i) ==
    i > 1 /\ c[i] * 100 <= c[i - 1] * (100 - BUY_DIP_PERCENTAGE)

\* df['close'] >= df['close'].shift(1) * (1 + sell_rise_percentage/100)
sell_signal(c, i) ==
    i > 1 /\ c[i] * 100 >= c[i - 1] * (100 + SELL_RISE_PERCENTAGE)

Trade(side, i, price) == [side |-> side, at |-> i, price |-> price]

\* The loop over the rows, from row i on.
RECURSIVE TradesFrom(_, _, _, _)
TradesFrom(c, i, position, trades) ==
    IF i > Len(c) THEN [position |-> position, trades |-> trades]
    ELSE IF position = 0 /\ buy_signal(c, i)
    THEN TradesFrom(c, i + 1, 1, Append(trades, Trade("buy", i, c[i])))
    ELSE IF position = 1 /\ sell_signal(c, i)
    THEN TradesFrom(c, i + 1, 0, Append(trades, Trade("sell", i, c[i])))
    ELSE TradesFrom(c, i + 1, position, trades)

simulate_trading_strategy_open(c) == TradesFrom(c, 1, 0, <<>>).trades

\* simulate_trading_strategy: a position open after the last row is sold at
\* the last close.
simulate_trading_strategy(c) ==
    LET end == TradesFrom(c, 1, 0, <<>>)
    IN  IF end.position = 1
        THEN Append(end.trades, Trade("sell", Len(c), c[Len(c)]))
        ELSE end.trades

RECURSIVE FProduct(_)
FProduct(s) == IF s = <<>> THEN F(1) ELSE FMul(s[1], FProduct(Tail(s)))

\* calculate_strategy_performance: for i in range(0, len(trades) - 1, 2) the
\* trades i and i + 1 are taken as a buy and its sell; total_return is the
\* product of sell_price / buy_price.
calculate_strategy_performance(trades) ==
    IF Len(trades) < 2 THEN [pairs |-> <<>>, total_return |-> F(0)]
    ELSE LET pairs == [k \in 1..(Len(trades) \div 2) |-> <<2 * k - 1, 2 * k>>]
         IN  [pairs |-> pairs,
              total_return |->
                  FSub(FProduct([k \in 1..Len(pairs) |->
                            FDiv(F(trades[pairs[k][2]].price),
                                 F(trades[pairs[k][1]].price))]),
                       F(1))]

TrInit ==
    /\ tr_closes \in {<<>>} \cup SeqsUpTo(TrCloses, MaxTrBars)
    /\ tr_trades = <<>>
    /\ tr_pairs = <<>>
    /\ CoreIdle
    /\ ExtIdle
    /\ CfIdle
    /\ DipIdle
    /\ WinIdle
    /\ QtIdle
    /\ CwIdle

SimulateTradingStrategy ==
    /\ tr_trades = <<>>
    /\ tr_trades' = <<simulate_trading_strategy(tr_closes)>>
    /\ UNCHANGED <<tr_closes, tr_pairs>>
    /\ UNCHANGED notTr

CalculateStrategyPerformance ==
    /\ tr_trades # <<>>
    /\ tr_pairs = <<>>
    /\ tr_pairs' = <<calculate_strategy_performance(tr_trades[1])>>
    /\ UNCHANGED <<tr_closes, tr_trades>>
    /\ UNCHANGED notTr

TrNext == SimulateTradingStrategy \/ CalculateStrategyPerformance

SpecTrading == TrInit /\ [][TrNext]_vars

\* The rows after row i that give a sell signal.
SellRowsAfter(i) == {j \in (i + 1)..Len(tr_closes) : sell_signal(tr_closes, j)}

\* C22: the trade list strictly alternates buy, sell, ..., starts with a buy
\* and has even length; each buy is sold at the first later row with a sell
\* signal or, when there is none, at the final close; and
\* calculate_strategy_performance pairs every buy with the sell that follows
\* it, leaving no trade out.
C22_TradesAlternate ==
    /\ tr_trades # <<>> =>
        LET trades == tr_trades[1]
        IN  /\ Len(trades) % 2 = 0
            /\ \A k \in 1..Len(trades) :
                  trades[k].side = (IF k % 2 = 1 THEN "buy" ELSE "sell")
            /\ \A k \in 1..Len(trades) : trades[k].price = tr_closes[trades[k].at]
            /\ \A k \in 1..(Len(trades) - 1) :
                  IF trades[k].side = "buy"
                  THEN IF SellRowsAfter(trades[k].at) = {}
                       THEN trades[k + 1].at = Len(tr_closes)
                       ELSE /\ trades[k + 1].at \in SellRowsAfter(trades[k].at)
                            /\ \A j \in SellRowsAfter(trades[k].at) :
                                  trades[k + 1].at <= j
                  ELSE trades[k].at < trades[k + 1].at
    /\ tr_pairs # <<>> =>
        LET trades == tr_trades[1]
            pairs == tr_pairs[1].pairs
        IN  /\ UNION {{pairs[k][1], pairs[k][2]} : k \in 1..Len(pairs)} = 1..Len(trades)
            /\ \A k \in 1..Len(pairs) :
                  /\ trades[pairs[k][1]].side = "buy"
                  /\ trades[pairs[k][2]].side = "sell"
                  /\ pairs[k][2] = pairs[k][1] + 1

\* Two round trips, the second one bought at the last row and closed there at
\* the final close without a sell signal, and both multiplied into the return.
C22_Witness ==
    /\ tr_pairs # <<>>
    /\ Len(tr_trades[1]) = 4
    /\ tr_trades[1][3].at = Len(tr_closes)
    /\ tr_trades[1][4].at = Len(tr_closes)
    /\ ~sell_signal(tr_closes, Len(tr_closes))
    /\ Len(tr_pairs[1].pairs) = 2

(***************************************************************************)
(* find_repetitive_dips (testing-with-crypto.py): a dip starts at a drop   *)
(* of more than the threshold and ends at the next rising bar.             *)
(***************************************************************************)
MaxDipBars == 8        \* closes of the history

MIN_DIP_DURATION == 2

DipCloses == {64, 80, 100}

DipThresholds == {10, 0 - 30}

\* price_change < -threshold, with
\* price_change = (close_prices[i + 1] / close_prices[i] - 1) * 100;
\* i counts from 0 as in the source.
Dropped(c, i, threshold) ==
    FLt(FMul(FSub(FDiv(F(c[i + 2]), F(c[i + 1])), F(1)), F(100)), F(0 - threshold))

\* price_change > 0
Rose(c, i) ==
    FGt(FMul(FSub(FDiv(F(c[i + 2]), F(c[i + 1])), F(1)), F(100)), F(0))

RECURSIVE DipsFromAnyDuration(_, _, _, _, _, _)
DipsFromAnyDuration(c, threshold, i, dip_found, dip_start_index, dips) ==
    IF i >= Len(c) - 1 THEN dips
    ELSE IF Dropped(c, i, threshold)
    THEN DipsFromAnyDuration(c, threshold, i + 1, TRUE,
                  IF dip_found THEN dip_start_index ELSE i, dips)
    ELSE IF Rose(c, i) /\ dip_found
    THEN DipsFromAnyDuration(c, threshold, i + 1, FALSE, dip_start_index,
                  Append(dips, <<dip_start_index, i>>))
    ELSE DipsFromAnyDuration(c, threshold, i + 1, dip_found, dip_start_index, dips)

\* The loop for i in range(len(close_prices) - 1), from i on.
RECURSIVE DipsFrom(_, _, _, _, _, _)
DipsFrom(c, threshold, i, dip_found, dip_start_index, dips) ==
    IF i >= Len(c) - 1 THEN dips
    ELSE IF Dropped(c, i, threshold)
    THEN DipsFrom(c, threshold, i + 1, TRUE,
                  IF dip_found THEN dip_start_index ELSE i, dips)
    ELSE IF Rose(c, i) /\ dip_found
    THEN DipsFrom(c, threshold, i + 1, FALSE, dip_start_index,
                  IF i - dip_start_index >= MIN_DIP_DURATION
                  THEN Append(dips, <<dip_start_index, i>>)
                  ELSE dips)
    ELSE DipsFrom(c, threshold, i + 1, dip_found, dip_start_index, dips)

find_repetitive_dips(c, threshold) == DipsFrom(c, threshold, 0, FALSE, 0, <<>>)

DipInit ==
    /\ dip_closes \in {<<>>} \cup SeqsUpTo(DipCloses, MaxDipBars)
    /\ dip_threshold \in DipThresholds
    /\ repetitive_dips = <<>>
    /\ CoreIdle
    /\ ExtIdle
    /\ CfIdle
    /\ TrIdle
    /\ WinIdle
    /\ QtIdle
    /\ CwIdle

FindRepetitiveDips ==
    /\ repetitive_dips = <<>>
    /\ repetitive_dips' = <<find_repetitive_dips(dip_closes, dip_threshold)>>
    /\ UNCHANGED <<dip_closes, dip_threshold>>
    /\ UNCHANGED notDip

DipNext == FindRepetitiveDips

SpecDips == DipInit /\ [][DipNext]_vars

\* C23: the dips are (start, end) index pairs with end - start >= 2, in
\* increasing order and pairwise non-overlapping (each start greater than
\* the previous end); every dip starts at a drop and ends at a rising bar, so
\* a dip not followed by a rising bar before the series ends is not reported.
C23_DipsOrderedAndDisjoint ==
    repetitive_dips # <<>> =>
        LET dips == repetitive_dips[1]
        IN  /\ \A k \in 1..Len(dips) :
                  /\ dips[k][2] - dips[k][1] >= MIN_DIP_DURATION
                  /\ dips[k][1] >= 0
                  /\ dips[k][2] <= Len(dip_closes) - 2
                  /\ Dropped(dip_closes, dips[k][1], dip_threshold)
                  /\ Rose(dip_closes, dips[k][2])
                  /\ \A i \in dips[k][1]..(dips[k][2] - 1) :
                        Dropped(dip_closes, i, dip_threshold) \/ ~Rose(dip_closes, i)
            /\ \A k \in 1..(Len(dips) - 1) : dips[k + 1][1] > dips[k][2]

\* Two dips were reported, and the series ends in a third drop that no rising
\* bar follows.
C23_Witness ==
    /\ repetitive_dips # <<>>
    /\ Len(repetitive_dips[1]) = 2
    /\ Dropped(dip_closes, Len(dip_closes) - 2, dip_threshold)

(***************************************************************************)
(* The window test of analyze_instruments (default-crypto-drop-checker.py) *)
(* next to the run-length scan of default-drop-checker.py, on the same     *)
(* fluctuations and configuration.                                         *)
(***************************************************************************)
\* weekly_fluctuations[i:i+CONSECUTIVE_WEEKS], i counted from 0: all of its
\* values within the band.
WindowInBand(fl, p, i) ==
    \A j \in (i + 1)..(i + p.CONSECUTIVE_WEEKS) : InBand(fl[j], p)

SlidingWindowShort(fl, p) ==
    \E i \in 0..(Len(fl) - p.CONSECUTIVE_WEEKS - 1) : WindowInBand(fl, p, i)

\* for i in range(len(weekly_fluctuations) - CONSECUTIVE_WEEKS + 1): the
\* first window within the band sets meets_criteria.
SlidingWindow(fl, p) ==
    \E i \in 0..(Len(fl) - p.CONSECUTIVE_WEEKS) : WindowInBand(fl, p, i)

\* analyze_instruments goes on to the window test only with
\* len(weekly_fluctuations) >= CONSECUTIVE_WEEKS.
WinInit ==
    /\ params \in GuiParams \cup {CliParams}
    /\ fluctuations \in SeqsUpTo(FluctValues, MaxWeeks)
    /\ Len(fluctuations) >= params.CONSECUTIVE_WEEKS
    /\ scan_result = <<>>
    /\ meets_criteria = <<>>
    /\ MainIdle
    /\ RecIdle
    /\ CbIdle
    /\ IndIdle
    /\ ExtIdle
    /\ CfIdle
    /\ TrIdle
    /\ DipIdle
    /\ QtIdle
    /\ CwIdle

AnalyzeWindow ==
    /\ meets_criteria = <<>>
    /\ meets_criteria' = <<SlidingWindow(fluctuations, params)>>
    /\ UNCHANGED scanVars
    /\ UNCHANGED notWin

WinNext == CheckConsecutive \/ AnalyzeWindow

SpecWindow == WinInit /\ [][WinNext]_vars

\* C24: the sliding-window test and check_consecutive_fluctuations give the
\* same meets_criteria for every fluctuation sequence, undefined entries
\* included, and every CONSECUTIVE_WEEKS from 1 to the length of the sequence.
C24_WindowEqualsScan ==
    (scan_result # <<>> /\ meets_criteria # <<>>) => meets_criteria = scan_result

\* Both tests found the run, which is the last window of a sequence with an
\* undefined entry before it.
C24_Witness ==
    /\ scan_result = <<TRUE>>
    /\ meets_criteria = <<TRUE>>
    /\ Len(fluctuations) > params.CONSECUTIVE_WEEKS
    /\ \E i \in 1..Len(fluctuations) : IsNaN(fluctuations[i])
    /\ ~SlidingWindowShort(fluctuations, params)

(***************************************************************************)
(* The Tk GUI again, with its scheduling: an analysis thread runs to the   *)
(* end of main() or to the exception that leaves it (the symbol-list       *)
(* requests of get_crypto_symbols and get_stock_symbols are made outside   *)
(* any try; the price fetches of analyze_instruments are inside one), and  *)
(* update_gui is called again every 100 ms.                                *)
(***************************************************************************)
TkFairness ==
    /\ WF_vars(ThreadCompletes \/ ThreadDies)
    /\ WF_vars(UpdateGui)

SpecTkLive == TkInit /\ [][TkNext]_vars /\ TkFairness

\* C25: once run_analysis has disabled the Run button and started the
\* analysis thread, the 'Analysis Complete' message is eventually queued and
\* the Run button is eventually enabled again, whatever the symbol-list and
\* price fetches return or raise.
C25_RunButtonComesBack ==
    /\ (Running # {}) ~> (tk_queue # <<>>)
    /\ (tk_button = "disabled") ~> (tk_button = "normal")

(***************************************************************************)
(* The PyQt6 tool (buy-low-sell-high-GUI-stage.py): each click on Analyze  *)
(* of the multiple-stocks tab starts a StockAnalysisWorker; its progress   *)
(* and finished signals are queued to the GUI thread, which runs the       *)
(* slots.  The Analyze button stays enabled throughout.                    *)
(***************************************************************************)
MaxClicks == 2         \* clicks on Analyze followed

MaxQtTickers == 2      \* tickers get_tickers hands to a worker

ClearedTable == [rows |-> "none", click |-> 0]

\* int(i / len(self.tickers) * 100)
ProgressPercent(i, n) == (i * 100) \div n

\* The slot an event runs: update_progress sets the bar, display_results
\* fills the table with the (sorted) results of the worker that sent them,
\* named here by the click that started the worker.
RECURSIVE RunSlots(_, _)
RunSlots(events, gui) ==
    IF events = <<>> THEN gui
    ELSE RunSlots(Tail(events),
            IF Head(events).signal = "progress"
            THEN [gui EXCEPT !.progress_bar = Head(events).value]
            ELSE [gui EXCEPT !.results_table =
                                [rows |-> "results", click |-> Head(events).click]])

RunningWorkers == {w \in 1..Len(qt_worker) : qt_worker[w].pc = "running"}

QtInit ==
    /\ qt_app = "running"
    /\ qt_clicks = 0
    /\ qt_worker = <<>>
    /\ qt_events = <<>>
    /\ progress_bar = 0
    /\ results_table = ClearedTable
    /\ CoreIdle
    /\ ExtIdle
    /\ CfIdle
    /\ TrIdle
    /\ DipIdle
    /\ WinIdle
    /\ CwIdle

\* analyze_multiple_stocks, the slot of the Analyze button: the bar and the
\* table are reset, processEvents() runs the slots of the signals queued so
\* far, and get_tickers raises (PyQt6 ends the application on an exception
\* that leaves a slot), finds no ticker, or finds the n tickers of a new
\* worker, which replaces self.worker.
AnalyzeMultipleStocks ==
    /\ qt_app = "running"
    /\ qt_clicks < MaxClicks
    /\ qt_clicks' = qt_clicks + 1
    /\ qt_events' = <<>>
    /\ LET gui == RunSlots(qt_events, [progress_bar |-> 0, results_table |-> ClearedTable])
       IN  /\ progress_bar' = gui.progress_bar
           /\ \/ /\ qt_app' = "aborted"
                 /\ results_table' = gui.results_table
                 /\ UNCHANGED qt_worker
              \/ /\ results_table' = [rows |-> "message", click |-> qt_clicks + 1]
                 /\ UNCHANGED <<qt_app, qt_worker>>
              \/ \E n \in 1..MaxQtTickers :
                    /\ results_table' = gui.results_table
                    /\ qt_worker' = Append(qt_worker,
                                        [pc |-> "running", click |-> qt_clicks + 1,
                                         tickers |-> n, done |-> 0])
                    /\ UNCHANGED qt_app
    /\ UNCHANGED notQt

\* StockAnalysisWorker.run, one turn of the as_completed loop:
\* self.progress.emit(int(i / len(self.tickers) * 100)).
WorkerProgress ==
    /\ qt_app = "running"
    /\ \E w \in RunningWorkers :
        /\ qt_worker[w].done < qt_worker[w].tickers
        /\ qt_worker' = [qt_worker EXCEPT ![w].done = @ + 1]
        /\ qt_events' = Append(qt_events,
                            [signal |-> "progress", click |-> qt_worker[w].click,
                             value |-> ProgressPercent(qt_worker[w].done + 1,
                                                       qt_worker[w].tickers)])
    /\ UNCHANGED <<qt_app, qt_clicks, progress_bar, results_table>>
    /\ UNCHANGED notQt

\* StockAnalysisWorker.run after the loop: self.finished.emit(promising_stocks).
WorkerFinished ==
    /\ qt_app = "running"
    /\ \E w \in RunningWorkers :
        /\ qt_worker[w].done = qt_worker[w].tickers
        /\ qt_worker' = [qt_worker EXCEPT ![w].pc = "finished"]
        /\ qt_events' = Append(qt_events,
                            [signal |-> "finished", click |-> qt_worker[w].click,
                             value |-> 0])
    /\ UNCHANGED <<qt_app, qt_clicks, progress_bar, results_table>>
    /\ UNCHANGED notQt

\* The event loop of the GUI thread runs the slot of the oldest queued signal.
RunSlot ==
    /\ qt_app = "running"
    /\ qt_events # <<>>
    /\ LET gui == RunSlots(<<Head(qt_events)>>,
                      [progress_bar |-> progress_bar, results_table |-> results_table])
       IN  /\ progress_bar' = gui.progress_bar
           /\ results_table' = gui.results_table
    /\ qt_events' = Tail(qt_events)
    /\ UNCHANGED <<qt_app, qt_clicks, qt_worker>>
    /\ UNCHANGED notQt

QtNext == AnalyzeMultipleStocks \/ WorkerProgress \/ WorkerFinished \/ RunSlot

SpecQt == QtInit /\ [][QtNext]_vars

\* Nothing is left to happen for the workers started so far.
QtQuiet == qt_app = "running" /\ RunningWorkers = {} /\ qt_events = <<>>

\* C26: at most one StockAnalysisWorker is running at any time, the progress
\* bar never decreases during a run (between two clicks), and once the
\* workers are done the results table shows the results of the most recent
\* Analyze click.
C26_OneWorkerAtATime ==
    /\ [](Cardinality(RunningWorkers) <= 1)
    /\ [][qt_clicks' = qt_clicks => progress_bar' >= progress_bar]_vars
    /\ []((QtQuiet /\ qt_clicks > 0) => results_table.click = qt_clicks)

\* The results of the tasks in the order the tickers were submitted, and the
\* ranking find_promising_stocks returns when the tasks complete in that
\* order.
RECURSIVE ResultsInSubmissionOrder(_)
ResultsInSubmissionOrder(t) ==
    IF t > MaxTickers THEN <<>>
    ELSE TaskResult(t, fi_answers[t]).value \o ResultsInSubmissionOrder(t + 1)

\* C27: the ranked list produced for a fixed set of tickers and fixed
\* per-ticker results is the same for every order in which the worker tasks
\* complete, equal potential gains included: it is the list produced when the
\* tasks complete in the order of submission.
C27_RankIndependentOfCompletion ==
    fi_pc \in {"returned", "shown"} =>
        fi_returned = SortedByGain(ResultsInSubmissionOrder(1))

\* C28: analyze_stock returns None for every history with fewer than 50 bars,
\* whatever its prices: the history is refused as too short, or SMA_50 is
\* undefined at the last bar and current_price > 0.95 * SMA_50 is not met; so
\* the PyQt6 tool produces no opportunity for such histories.
C28_NoOpportunityBelowFiftyBars ==
    (ScriptDone /\ ind_script \in AnalyzeStockScripts /\ Len(history) < SMA_50_WINDOW) =>
        /\ result = <<>>
        /\ ~skipped => IsNaN(ind.SMA_50)

\* The PyQt6 tool has analyzed a history of the length of a month of trading
\* days whose RSI is below 40 and whose last close is above 95% of the mean
\* of all its closes, and has returned None.
C28_Witness ==
    /\ ScriptDone
    /\ ind_script = "buy-low-sell-high-GUI-stage"
    /\ Len(history) \in 20..23
    /\ ~skipped
    /\ FLt(ind.RSI, F(RSI_BUY_BELOW))
    /\ FGt(F(Last(history)),
           FMul(RollingMeanPartial(history, SMA_50_WINDOW, Len(history)),
                Frac(SMA_PERCENT, 100)))
    /\ result = <<>>

(***************************************************************************)
(* CryptoInvestmentScanner (CryptoWatchDog.py): run calls                  *)
(* update_promising_currencies every MONITOR_INTERVAL seconds; each call   *)
(* asks for the stats of every online USD product on a thread pool and     *)
(* keeps the promising ones of largest USD volume.                         *)
(***************************************************************************)
MaxScans == 2          \* calls of update_promising_currencies followed

MaxUsdProducts == 26   \* products fetch_usd_products answers

VOLUME_THRESHOLD == 1000000

PRICE_CHANGE_THRESHOLD == 5

MAX_CURRENCIES_TO_MONITOR == 20

StatsPatterns == {"rising", "falling", "tied", "mixed"}

\* What the stats request of product k answers in a call: "failed" (the
\* request raises and fetch_currency_stats returns None), "malformed" (a field
\* float() refuses), or the 24h volume, last and open price.  Under "mixed"
\* the first five products are not promising, each for another reason.
Stats(k, pattern, poll) ==
    LET kind == IF pattern = "mixed" /\ k = 1 THEN "failed"
                ELSE IF pattern = "mixed" /\ k = 2 THEN "malformed"
                ELSE "stats"
        volume_24h == IF pattern = "falling" THEN 100000 + 1000 * (MaxUsdProducts + 1 - k)
                  ELSE IF pattern = "tied" THEN 100000 + 1000 * ((k % 3) + 1)
                  ELSE IF pattern = "mixed" /\ k = 4 THEN 100000
                  ELSE 100000 + 1000 * k
        open_price == IF pattern = "mixed" /\ k = 3 THEN 0
                ELSE IF pattern = "mixed" /\ k = 5 THEN 20
                ELSE 9
        last_price == IF pattern = "mixed" /\ k = 5 THEN 21 ELSE 10
    IN  [id |-> k, kind |-> kind, volume |-> volume_24h, last |-> last_price, open |-> open_price,
         fetched |-> poll]

\* float(stats['volume']) * float(stats['last'])
UsdVolume(stats) == stats.volume * stats.last

\* is_promising: None and a ValueError of float() give False, a zero open
\* price gives False.
is_promising(stats) ==
    /\ stats.kind = "stats"
    /\ stats.open # 0
    /\ UsdVolume(stats) > VOLUME_THRESHOLD
    /\ Abs(stats.last - stats.open) * 100 > PRICE_CHANGE_THRESHOLD * stats.open

\* Orders in which the n stats requests of a call complete.
CompletionOrders(n) ==
    {[i \in 1..n |-> i],
     [i \in 1..n |-> n + 1 - i],
     [i \in 1..n |-> IF 2 * i - 1 <= n THEN 2 * i - 1 ELSE 2 * (i - (n + 1) \div 2)]}

\* The as_completed loop: the promising stats, in the order of completion.
RECURSIVE PromisingCurrencies(_, _, _)
PromisingCurrencies(stats, order, i) ==
    IF i > Len(order) THEN <<>>
    ELSE (IF is_promising(stats[order[i]]) THEN <<stats[order[i]]>> ELSE <<>>)
            \o PromisingCurrencies(stats, order, i + 1)

\* promising_currencies.sort(key=USD volume, reverse=True): stable.
RECURSIVE InsertByVolume(_, _)
InsertByVolume(s, x) ==
    IF s = <<>> THEN <<x>>
    ELSE IF UsdVolume(x) > UsdVolume(s[1]) THEN <<x>> \o s
    ELSE <<s[1]>> \o InsertByVolume(Tail(s), x)

RECURSIVE SortedByVolume(_)
SortedByVolume(s) ==
    IF s = <<>> THEN <<>>
    ELSE InsertByVolume(SortedByVolume(SubSeq(s, 1, Len(s) - 1)), s[Len(s)])

MonitoredUncapped(sorted) == sorted

\* dict(promising_currencies[:MAX_CURRENCIES_TO_MONITOR])
Monitored(sorted) == Take(sorted, MAX_CURRENCIES_TO_MONITOR)

CwInit ==
    /\ cw_pc = "polling"
    /\ cw_poll = 0
    /\ cw_stats = <<>>
    /\ currencies = <<>>
    /\ CoreIdle
    /\ ExtIdle
    /\ CfIdle
    /\ TrIdle
    /\ DipIdle
    /\ WinIdle
    /\ QtIdle

\* update_promising_currencies, a call that completes: fetch_usd_products
\* answers n products (none for a status other than 200), their stats are
\* fetched on the pool, and self.currencies is replaced.
UpdatePromisingCurrencies ==
    /\ cw_pc = "polling"
    /\ cw_poll < MaxScans
    /\ \E n \in 0..MaxUsdProducts, pattern \in StatsPatterns :
        LET stats == [k \in 1..n |-> Stats(k, pattern, cw_poll + 1)]
        IN  /\ cw_stats' = stats
            /\ \E order \in CompletionOrders(n) :
                  currencies' =
                      Monitored(SortedByVolume(PromisingCurrencies(stats, order, 1)))
    /\ cw_poll' = cw_poll + 1
    /\ UNCHANGED cw_pc
    /\ UNCHANGED notCw

\* update_promising_currencies, a call that does not complete: the request of
\* fetch_usd_products raises, which nothing in run catches.
UpdateRaises ==
    /\ cw_pc = "polling"
    /\ cw_poll < MaxScans
    /\ cw_pc' = "raised"
    /\ UNCHANGED <<cw_poll, cw_stats, currencies>>
    /\ UNCHANGED notCw

CwNext == UpdatePromisingCurrencies \/ UpdateRaises

SpecWatchDog == CwInit /\ [][CwNext]_vars

Kept == {currencies[i] : i \in 1..Len(currencies)}

LeftOut == {cw_stats[k] : k \in 1..Len(cw_stats)} \ Kept

\* C29: after every completed call of update_promising_currencies,
\* self.currencies holds at most MAX_CURRENCIES_TO_MONITOR entries, one per
\* currency, each of them stats of this call that satisfy is_promising; no
\* promising currency left out has a larger USD volume than one kept; nothing
\* from the previous poll survives.
C29_TopPromisingOfThisPoll ==
    cw_poll > 0 =>
        /\ Len(currencies) <= MAX_CURRENCIES_TO_MONITOR
        /\ \A i, j \in 1..Len(currencies) : i # j => currencies[i].id # currencies[j].id
        /\ \A e \in Kept :
              /\ is_promising(e)
              /\ UsdVolume(e) > VOLUME_THRESHOLD
              /\ e.open # 0
              /\ Abs(e.last - e.open) * 100 > PRICE_CHANGE_THRESHOLD * e.open
              /\ e.fetched = cw_poll
              /\ e.id \in 1..Len(cw_stats)
              /\ e = cw_stats[e.id]
        /\ \A s \in LeftOut : is_promising(s) =>
              /\ Len(currencies) = MAX_CURRENCIES_TO_MONITOR
              /\ \A e \in Kept : UsdVolume(s) <= UsdVolume(e)

\* The second call has kept 20 currencies, left a promising one out and
\* refused others as not promising, its requests completing out of order.
C29_Witness ==
    /\ cw_poll = 2
    /\ Len(currencies) = MAX_CURRENCIES_TO_MONITOR
    /\ \E s \in LeftOut : is_promising(s)
    /\ \E s \in LeftOut : ~is_promising(s) /\ s.kind = "stats"
    /\ \E i \in 1..(Len(currencies) - 1) : currencies[i].id > currencies[i + 1].id

====
